---- MODULE Spec2Model ----
(***************************************************************************)
(* A model of the A11y Audit Pro client: the scan store (scanSlice), the   *)
(* Scanner component's two scan handlers, and the aggregation layer of     *)
(* EnhancedAccessibilityScanner (scan, calculateScores, assessCompliance,  *)
(* calculateCognitiveScore, generateAIInsights).                           *)
(*                                                                         *)
(* JavaScript numbers that are scores are modelled as exact rationals      *)
(* [num, den] in lowest terms with den > 0.  Nullable fields are sequences *)
(* of length at most one: <<>> is null, <<v>> is the value v.              *)
(***************************************************************************)
EXTENDS Integers, Sequences, FiniteSets, TLC

VARIABLES
    isScanning,      \* state.scan.isScanning
    currentResults,  \* state.scan.currentResults, nullable
    scanHistory,     \* state.scan.scanHistory
    error,           \* state.scan.error, nullable
    scans,           \* the handler invocations of the Scanner component, in start order
    delivered,       \* history variable: the payloads of setScanResults since the last clearHistory
    nResults,        \* history variable: the number of setScanResults dispatches so far
    document,        \* the Document the two analyzers are constructed on, nullable
    loaded,          \* history variable: the Document as it was before any analyzer ran
    engine,          \* the AdvancedAccessibilityEngine instance, nullable
    analyzer,        \* the SemanticAccessibilityAnalyzer instance, nullable
    exported,        \* what exportReport returned last, nullable
    scanned          \* the scanner's options and what its scan() of the document returned, nullable

vars == <<isScanning, currentResults, scanHistory, error, scans, delivered, nResults,
          document, loaded, engine, analyzer, exported, scanned>>

storeVars == <<isScanning, currentResults, scanHistory, error>>

analysisVars == <<document, loaded, engine, analyzer, exported, scanned>>

-----------------------------------------------------------------------------
(* Bounds of the model.                                                    *)

\* scans started by the Scanner component in one behaviour of Spec
MaxScans == 2
\* structural findings in one document of the scoring specification
MaxAdvanced == 2
\* semantic findings in one document of the scoring specification
MaxSemantic == 6
\* baseline violations in one document of the scoring specification
MaxViolations == 2
\* setScanResults dispatches in one behaviour of SpecStore
MaxResults == 11
\* findings of each kind added to a document when two scans are compared
MaxExtra == 1

-----------------------------------------------------------------------------
(* Nullable values.                                                        *)

Null == <<>>

Some(v) == <<v>>

-----------------------------------------------------------------------------
(* Exact rational arithmetic for the scores.                               *)

Abs(n) == IF n < 0 THEN -n ELSE n

RECURSIVE GCD(_, _)
GCD(a, b) == IF b = 0 THEN a ELSE GCD(b, a % b)

\* the rational n/d (d > 0) in lowest terms
Rat(n, d) ==
    LET g == GCD(Abs(n), d)
    IN  [num |-> n \div g, den |-> d \div g]

RInt(k) == [num |-> k, den |-> 1]

RSub(a, b) == Rat(a.num * b.den - b.num * a.den, a.den * b.den)

RLeq(a, b) == a.num * b.den <= b.num * a.den

MathMax(a, b) == IF RLeq(a, b) THEN b ELSE a

MathMin(a, b) == IF RLeq(a, b) THEN a ELSE b

RECURSIVE SumSeq(_)
SumSeq(s) == IF s = <<>> THEN 0 ELSE Head(s) + SumSeq(Tail(s))

\* n copies of x
RECURSIVE Rep(_, _)
Rep(n, x) == IF n = 0 THEN <<>> ELSE <<x>> \o Rep(n - 1, x)

-----------------------------------------------------------------------------
(* EnhancedAccessibilityScanner: scoring.                                  *)
(* A scan result holds the four baseline lists (records with id, impact    *)
(* and the set tags), advancedViolations (records with testId, category,   *)
(* severity) and semanticIssues (records with testId, category, severity   *)
(* and elements, each element carrying its cognitiveLoad).                 *)

Severities == {"critical", "serious", "moderate", "minor"}

\* severityWeight[violation.severity] || 0 of the advanced penalty
advancedSeverityWeight(severity) ==
    CASE severity = "critical" -> 25
      [] severity = "serious"  -> 15
      [] severity = "moderate" -> 8
      [] severity = "minor"    -> 3
      [] OTHER                 -> 0

\* severityWeight[issue.severity] || 0 of the semantic penalty
semanticSeverityWeight(severity) ==
    CASE severity = "critical" -> 20
      [] severity = "serious"  -> 12
      [] severity = "moderate" -> 6
      [] severity = "minor"    -> 2
      [] OTHER                 -> 0

axeScore(result) ==
    LET totalTests == Len(result.violations) + Len(result.passes) + Len(result.incomplete)
        basePasses == Len(result.passes)
    IN  IF totalTests > 0 THEN Rat(basePasses * 100, totalTests) ELSE RInt(100)

advancedPenalty(result) ==
    SumSeq([i \in DOMAIN result.advancedViolations |->
                advancedSeverityWeight(result.advancedViolations[i].severity)])

semanticPenalty(result) ==
    SumSeq([i \in DOMAIN result.semanticIssues |->
                semanticSeverityWeight(result.semanticIssues[i].severity)])

\* a faulty wcagLevelScore: incomplete results are counted into the level's total
wcagLevelScoreCountingIncomplete(result, tag) ==
    LET levelViolations == Len(SelectSeq(result.violations, LAMBDA v : tag \in v.tags))
        levelPasses     == Len(SelectSeq(result.passes, LAMBDA p : tag \in p.tags))
        levelIncomplete == Len(SelectSeq(result.incomplete, LAMBDA i : tag \in i.tags))
        levelTotal      == levelViolations + levelPasses + levelIncomplete
    IN  IF levelTotal > 0 THEN Rat(levelPasses * 100, levelTotal) ELSE RInt(100)

\* the score of one WCAG level: passes and violations whose tags include tag
wcagLevelScore(result, tag) ==
    LET levelViolations == Len(SelectSeq(result.violations, LAMBDA v : tag \in v.tags))
        levelPasses     == Len(SelectSeq(result.passes, LAMBDA p : tag \in p.tags))
        levelTotal      == levelViolations + levelPasses
    IN  IF levelTotal > 0 THEN Rat(levelPasses * 100, levelTotal) ELSE RInt(100)

calculateCognitiveScore(semanticIssues) ==
    LET cognitiveIssues == SelectSeq(semanticIssues, LAMBDA issue : issue.category = "cognitive")
        totalCognitiveLoad ==
            SumSeq([i \in DOMAIN cognitiveIssues |->
                       SumSeq([j \in DOMAIN cognitiveIssues[i].elements |->
                                  cognitiveIssues[i].elements[j].cognitiveLoad])])
    IN  IF Len(cognitiveIssues) = 0
        THEN RInt(100)
        \* 100 - (totalCognitiveLoad / 50) * 100
        ELSE MathMax(RInt(0), RSub(RInt(100), Rat(totalCognitiveLoad * 100, 50)))

\* a faulty overallScore: the penalties are not halved
overallScoreFullPenalty(result) ==
    MathMax(RInt(0),
       MathMin(RInt(100),
          RSub(axeScore(result),
               RInt(advancedPenalty(result) + semanticPenalty(result)))))

\* a faulty overallScore: the penalties are added to the baseline score
overallScorePenaltyAdded(result) ==
    MathMax(RInt(0),
       MathMin(RInt(100),
          RSub(axeScore(result),
               Rat(0 - (advancedPenalty(result) + semanticPenalty(result)), 2))))

\* Math.max(0, Math.min(100, axeScore - (advancedPenalty + semanticPenalty) / 2))
overallScore(result) ==
    MathMax(RInt(0),
       MathMin(RInt(100),
          RSub(axeScore(result),
               Rat(advancedPenalty(result) + semanticPenalty(result), 2))))

\* a faulty semanticScore: the lower clamp is missing
semanticScoreUnclamped(result) ==
    RSub(RInt(100), RInt(semanticPenalty(result)))

\* Math.max(0, 100 - semanticPenalty)
semanticScore(result) ==
    MathMax(RInt(0), RSub(RInt(100), RInt(semanticPenalty(result))))

calculateScores(result) ==
    [ overall   |-> overallScore(result),
      wcagA     |-> wcagLevelScore(result, "wcag2a"),
      wcagAA    |-> wcagLevelScore(result, "wcag2aa"),
      wcagAAA   |-> wcagLevelScore(result, "wcag2aaa"),
      semantic  |-> semanticScore(result),
      cognitive |-> calculateCognitiveScore(result.semanticIssues) ]

\* a faulty totalCritical: the semantic source is left out
totalCriticalNoSemantic(result) ==
    Len(SelectSeq(result.violations, LAMBDA v : v.impact = "critical"))
      + Len(SelectSeq(result.advancedViolations, LAMBDA v : v.severity = "critical"))

\* the number of critical issues over the three sources
totalCritical(result) ==
    Len(SelectSeq(result.violations, LAMBDA v : v.impact = "critical"))
      + Len(SelectSeq(result.advancedViolations, LAMBDA v : v.severity = "critical"))
      + Len(SelectSeq(result.semanticIssues, LAMBDA i : i.severity = "critical"))

\* a faulty complianceLevel: the thresholds are exclusive
complianceLevelExclusive(critical, scores) ==
    IF critical = 0
    THEN IF ~RLeq(scores.wcagAAA, RInt(95)) THEN "AAA"
         ELSE IF ~RLeq(scores.wcagAA, RInt(90)) THEN "AA"
         ELSE IF ~RLeq(scores.wcagA, RInt(85)) THEN "A"
         ELSE "Non-compliant"
    ELSE "Non-compliant"

\* the cascade that decides the level once there is no critical issue
complianceLevel(critical, scores) ==
    IF critical = 0
    THEN IF RLeq(RInt(95), scores.wcagAAA) THEN "AAA"
         ELSE IF RLeq(RInt(90), scores.wcagAA) THEN "AA"
         ELSE IF RLeq(RInt(85), scores.wcagA) THEN "A"
         ELSE "Non-compliant"
    ELSE "Non-compliant"

assessCompliance(result) ==
    LET totalTests == Len(result.violations) + Len(result.passes) + Len(result.incomplete)
    IN  [ level          |-> complianceLevel(totalCritical(result), result.scores),
          passRate       |-> IF totalTests > 0
                             THEN Rat(Len(result.passes) * 100, totalTests)
                             ELSE RInt(100),
          criticalIssues |-> totalCritical(result),
          totalTests     |-> totalTests + Len(result.advancedViolations)
                               + Len(result.semanticIssues) ]

\* Math.ceil(n / 2) for a count n >= 0
CeilHalf(n) == (n + 1) \div 2

ContrastRuleIds == {"color-contrast", "color-contrast-enhanced"}

FormRuleIds == {"label", "form-field-multiple-labels"}

\* Array.prototype.slice(0, n)
SliceTo(s, n) == IF Len(s) > n THEN SubSeq(s, 1, n) ELSE s

generatePriorityRecommendations(result) ==
    LET Has(s, Test(_)) == Len(SelectSeq(s, Test)) > 0
        If(c, text) == IF c THEN <<text>> ELSE <<>>
    IN  SliceTo(
          If(Has(result.violations, LAMBDA v : v.impact = "critical"), "critical-violations")
            \o If(Has(result.violations, LAMBDA v : v.id \in ContrastRuleIds), "contrast")
            \o If(Has(result.advancedViolations, LAMBDA v : v.category = "keyboard"), "keyboard")
            \o If(Has(result.violations, LAMBDA v : v.id \in FormRuleIds), "forms")
            \o If(Has(result.advancedViolations, LAMBDA v : v.category = "structure"), "structure")
            \o If(Has(result.semanticIssues, LAMBDA i : i.category = "cognitive"), "cognitive"),
          5)

generateAIInsights(result) ==
    LET totalIssues == Len(result.violations) + Len(result.advancedViolations)
                         + Len(result.semanticIssues)
        criticalIssues == result.compliance.criticalIssues
    IN  [ summary |-> IF totalIssues = 0 THEN "excellent"
                      ELSE IF criticalIssues > 0 THEN "critical-barriers"
                      ELSE "improvements",
          priorityRecommendations |-> generatePriorityRecommendations(result),
          estimatedFixHours |-> IF totalIssues = 0 THEN 0
                                ELSE IF criticalIssues > 0 THEN criticalIssues * 2
                                ELSE CeilHalf(totalIssues) ]

-----------------------------------------------------------------------------
(* EnhancedAccessibilityScanner: constructor and scan().                   *)
(* A document is modelled by what the three engines report on it: axe (the *)
(* four baseline lists axe.run resolves with), advanced (the list that     *)
(* AdvancedAccessibilityEngine.analyze returns) and semantic (the list     *)
(* that SemanticAccessibilityAnalyzer.analyze returns).                    *)

DefaultOptions ==
    [includeAdvanced |-> TRUE, includeSemantic |-> TRUE, includeAI |-> FALSE, wcagLevel |-> "AA"]

\* { ...defaults, ...options }
ScannerOptions(options) ==
    [k \in DOMAIN DefaultOptions |-> IF k \in DOMAIN options THEN options[k] ELSE DefaultOptions[k]]

AdvancedAnalyze(doc) == doc.advanced

SemanticAnalyze(doc) == doc.semantic

ZeroScores ==
    [overall |-> RInt(0), wcagA |-> RInt(0), wcagAA |-> RInt(0), wcagAAA |-> RInt(0),
     semantic |-> RInt(0), cognitive |-> RInt(0)]

\* the result object scan() builds before any analyzer runs
InitialResult(doc, stamp) ==
    [ url                |-> "window.location.href",
      timestamp          |-> stamp,
      violations         |-> doc.axe.violations,
      passes             |-> doc.axe.passes,
      incomplete         |-> doc.axe.incomplete,
      inapplicable       |-> doc.axe.inapplicable,
      advancedViolations |-> <<>>,
      semanticIssues     |-> <<>>,
      scores             |-> ZeroScores,
      compliance         |-> [level |-> "Non-compliant", passRate |-> RInt(0),
                              criticalIssues |-> 0, totalTests |-> 0],
      scanDuration       |-> 0,
      elementsAnalyzed   |-> doc.elements,
      aiInsights         |-> Null ]

\* a faulty AdvancedPass: the engine runs whatever includeAdvanced says
AdvancedPassAlways(doc, options) ==
    [runs |-> 1, findings |-> AdvancedAnalyze(doc)]

\* if (this.options.includeAdvanced): whether the engine runs, and what it yields
AdvancedPass(doc, options) ==
    IF options.includeAdvanced
    THEN [runs |-> 1, findings |-> AdvancedAnalyze(doc)]
    ELSE [runs |-> 0, findings |-> <<>>]

\* if (this.options.includeSemantic): whether the analyzer runs, and what it yields
SemanticPass(doc, options) ==
    IF options.includeSemantic
    THEN [runs |-> 1, findings |-> SemanticAnalyze(doc)]
    ELSE [runs |-> 0, findings |-> <<>>]

\* the body of scan() after axe.run has resolved
ScanBody(doc, options, stamp) ==
    LET r0 == InitialResult(doc, stamp)
        r1 == [r0 EXCEPT !.advancedViolations = AdvancedPass(doc, options).findings]
        r2 == [r1 EXCEPT !.semanticIssues = SemanticPass(doc, options).findings]
        r3 == [r2 EXCEPT !.scores = calculateScores(r2)]
        r4 == [r3 EXCEPT !.compliance = assessCompliance(r3)]
        r5 == IF options.includeAI
              THEN [r4 EXCEPT !.aiInsights = Some(generateAIInsights(r4))] ELSE r4
    \* performance.now() - startTime: some elapsed time, the same token for every scan
    IN  [r5 EXCEPT !.scanDuration = "elapsed"]

\* what axe.run can reject with: an Error carrying a message, or another value
AxeFailures ==
    { [isError |-> TRUE, message |-> "No elements found for include in page Context"],
      [isError |-> FALSE, message |-> "rejected with a string"] }

\* a faulty ScanFailureMessage: the cause's message is lost
ScanFailureMessageUnknown(cause) ==
    "Accessibility scan failed: " \o "Unknown error"

\* the message of the Error scan() throws from its catch block
ScanFailureMessage(cause) ==
    "Accessibility scan failed: " \o (IF cause.isError THEN cause.message ELSE "Unknown error")

-----------------------------------------------------------------------------
(* scanSlice: the reducers, as actions on the four fields of the store.    *)

MaxHistory == 10

\* the keys whose value may be undefined in a payload
OptionalKeys == {"aiInsights"}

\* JSON.parse(JSON.stringify(payload)): keys holding undefined are dropped
JSONClone(payload) ==
    [k \in {x \in DOMAIN payload : ~(x \in OptionalKeys /\ payload[x] = Null)} |-> payload[k]]

startScan ==
    /\ isScanning' = TRUE
    /\ error' = Null
    /\ UNCHANGED <<currentResults, scanHistory>>

\* a faulty setScanResults: the history is never truncated
setScanResultsUncapped(payload) ==
    /\ isScanning' = FALSE
    /\ currentResults' = Some(payload)
    /\ scanHistory' = <<JSONClone(payload)>> \o scanHistory
    /\ UNCHANGED error

\* a faulty setScanResults: the history receives what currentResults held before
setScanResultsStale(payload) ==
    LET unshifted == (IF currentResults = Null THEN <<>> ELSE <<JSONClone(currentResults[1])>>)
                       \o scanHistory
    IN  /\ isScanning' = FALSE
        /\ currentResults' = Some(payload)
        /\ scanHistory' = IF Len(unshifted) > MaxHistory
                          THEN SubSeq(unshifted, 1, MaxHistory)
                          ELSE unshifted
        /\ UNCHANGED error

setScanResults(payload) ==
    LET unshifted == <<JSONClone(payload)>> \o scanHistory
    IN  /\ isScanning' = FALSE
        /\ currentResults' = Some(payload)
        /\ scanHistory' = IF Len(unshifted) > MaxHistory
                          THEN SubSeq(unshifted, 1, MaxHistory)
                          ELSE unshifted
        /\ UNCHANGED error

\* a faulty setScanError: the failure also discards the current results
setScanErrorDroppingResults(message) ==
    /\ isScanning' = FALSE
    /\ error' = Some(message)
    /\ currentResults' = Null
    /\ UNCHANGED scanHistory

setScanError(message) ==
    /\ isScanning' = FALSE
    /\ error' = Some(message)
    /\ UNCHANGED <<currentResults, scanHistory>>

clearResults ==
    /\ currentResults' = Null
    /\ error' = Null
    /\ UNCHANGED <<isScanning, scanHistory>>

clearHistory ==
    /\ scanHistory' = <<>>
    /\ UNCHANGED <<isScanning, currentResults, error>>

-----------------------------------------------------------------------------
(* Scanner component: handleFileScan and handleUrlScan.                    *)
(* A handler invocation is a record: pc is "read" (awaiting                *)
(* uploadedFile.text()), "iframe" (awaiting the iframe's load or error     *)
(* event), "axe" (scan() awaiting axe.run), "returned" / "threw" (scan()   *)
(* has settled, the handler's continuation is pending), "done" or          *)
(* "failed"; a finished invocation keeps its handler and pc only.          *)
(* advancedRuns and semanticRuns count the analyze() calls, and cause      *)
(* records what axe.run rejected with.                                     *)

Invocation(handler, doc, options, pc) ==
    [ handler |-> handler, doc |-> doc, options |-> ScannerOptions(options), pc |-> pc,
      advancedRuns |-> 0, semanticRuns |-> 0, returned |-> Null,
      cause |-> Null, thrown |-> Null ]

\* the object the handlers give to setScanResults
ResultsPayload(name, results) ==
    [ url                |-> name,
      timestamp          |-> results.timestamp,
      violations         |-> results.violations,
      passes             |-> results.passes,
      incomplete         |-> results.incomplete,
      inapplicable       |-> results.inapplicable,
      advancedViolations |-> results.advancedViolations,
      semanticIssues     |-> results.semanticIssues,
      scores             |-> results.scores,
      compliance         |-> results.compliance,
      scanDuration       |-> results.scanDuration,
      elementsAnalyzed   |-> results.elementsAnalyzed,
      aiInsights         |-> results.aiInsights ]

\* the message of the handler's catch block
CatchMessage(handler) ==
    IF handler = "file"
    THEN "Failed to scan the uploaded file"
    ELSE "Failed to scan the URL. Cross-origin restrictions may apply."

CorsMessage ==
    "Cannot scan external websites due to browser security restrictions (CORS). "
      \o "Please try uploading the HTML file instead or use local URLs."

Advance(s, pc) == scans' = [scans EXCEPT ![s].pc = pc]

\* the handler has run to its end: nothing of the invocation but its outcome is kept
Finish(s, pc) == scans' = [scans EXCEPT ![s] = [handler |-> @.handler, pc |-> pc]]

\* the scan buttons are disabled while isScanning
HandleFileScan(doc, options) ==
    /\ ~isScanning
    /\ Len(scans) < MaxScans
    /\ startScan
    /\ scans' = Append(scans, Invocation("file", doc, options, "read"))
    /\ UNCHANGED <<delivered, nResults>>
    /\ UNCHANGED analysisVars

FileReadResolves(s) ==
    /\ scans[s].pc = "read"
    /\ Advance(s, "axe")
    /\ UNCHANGED <<storeVars, delivered, nResults>>
    /\ UNCHANGED analysisVars

FileReadRejects(s) ==
    /\ scans[s].pc = "read"
    /\ setScanError(CatchMessage("file"))
    /\ Finish(s, "failed")
    /\ UNCHANGED <<delivered, nResults>>
    /\ UNCHANGED analysisVars

\* an address of another origin: no scan is started
HandleUrlScanExternal ==
    /\ ~isScanning
    /\ setScanError(CorsMessage)
    /\ UNCHANGED <<scans, delivered, nResults>>
    /\ UNCHANGED analysisVars

HandleUrlScan(doc, options) ==
    /\ ~isScanning
    /\ Len(scans) < MaxScans
    /\ startScan
    /\ scans' = Append(scans, Invocation("url", doc, options, "iframe"))
    /\ UNCHANGED <<delivered, nResults>>
    /\ UNCHANGED analysisVars

IframeLoads(s) ==
    /\ scans[s].pc = "iframe"
    /\ Advance(s, "axe")
    /\ UNCHANGED <<storeVars, delivered, nResults>>
    /\ UNCHANGED analysisVars

\* iframe.contentDocument is null: the throw is caught in the load handler
IframeLoadsInaccessible(s) ==
    /\ scans[s].pc = "iframe"
    /\ setScanError(CatchMessage("url"))
    /\ Finish(s, "failed")
    /\ UNCHANGED <<delivered, nResults>>
    /\ UNCHANGED analysisVars

IframeErrors(s) ==
    /\ scans[s].pc = "iframe"
    /\ setScanError("Failed to load the URL")
    /\ Finish(s, "failed")
    /\ UNCHANGED <<delivered, nResults>>
    /\ UNCHANGED analysisVars

\* axe.run resolves and scan() runs to its return
AxeResolves(s) ==
    /\ scans[s].pc = "axe"
    /\ scans' = [scans EXCEPT
                   ![s].pc = "returned",
                   ![s].advancedRuns = @ + AdvancedPass(scans[s].doc, scans[s].options).runs,
                   ![s].semanticRuns = @ + SemanticPass(scans[s].doc, scans[s].options).runs,
                   ![s].returned = Some(ScanBody(scans[s].doc, scans[s].options, s))]
    /\ UNCHANGED <<storeVars, delivered, nResults>>
    /\ UNCHANGED analysisVars

\* axe.run rejects and scan() throws from its catch block
AxeRejects(s, cause) ==
    /\ scans[s].pc = "axe"
    /\ scans' = [scans EXCEPT ![s].pc = "threw",
                              ![s].cause = Some(cause),
                              ![s].thrown = Some(ScanFailureMessage(cause))]
    /\ UNCHANGED <<storeVars, delivered, nResults>>
    /\ UNCHANGED analysisVars

\* the handler resumes after await scanner.scan() with the results
HandlerDelivers(s) ==
    /\ scans[s].pc = "returned"
    /\ LET payload == ResultsPayload(scans[s].doc.name, scans[s].returned[1])
       IN  /\ setScanResults(payload)
           /\ delivered' = Append(delivered, payload)
    /\ nResults' = nResults + 1
    /\ Finish(s, "done")
    /\ UNCHANGED analysisVars

\* a faulty catch block: the error is swallowed and nothing is dispatched
HandlerCatchesSilently(s) ==
    /\ scans[s].pc = "threw"
    /\ Finish(s, "failed")
    /\ UNCHANGED <<storeVars, delivered, nResults>>
    /\ UNCHANGED analysisVars

\* the handler's catch block runs on the error scan() threw
HandlerCatches(s) ==
    /\ scans[s].pc = "threw"
    /\ setScanError(CatchMessage(scans[s].handler))
    /\ Finish(s, "failed")
    /\ UNCHANGED <<delivered, nResults>>
    /\ UNCHANGED analysisVars

-----------------------------------------------------------------------------
(* The documents and options the specifications draw their inputs from.    *)

Rule(id, impact, tags) == [id |-> id, impact |-> impact, tags |-> tags]

Finding(testId, category, severity) ==
    [testId |-> testId, category |-> category, severity |-> severity]

Issue(testId, category, severity, loads) ==
    [ testId |-> testId, category |-> category, severity |-> severity,
      elements |-> [i \in DOMAIN loads |-> [cognitiveLoad |-> loads[i]]] ]

PassA == Rule("document-title", "null", {"wcag2a"})

PassAA == Rule("color-contrast", "null", {"wcag2aa"})

PassAAA == Rule("color-contrast-enhanced", "null", {"wcag2aaa"})

PassBestPractice == Rule("region", "null", {})

\* an incomplete result carries the tags of its rule like any other result
IncompleteRule == Rule("custom-review", "null", {"wcag2a", "wcag2aa", "wcag2aaa"})

\* the kinds of baseline violation: an impact and the level tags of the rule
ViolationKinds ==
    << Rule("image-alt", "critical", {"wcag2a"}),
       Rule("link-name", "serious", {"wcag2a"}),
       Rule("color-contrast", "serious", {"wcag2aa"}),
       Rule("color-contrast-enhanced", "serious", {"wcag2aaa"}),
       Rule("label", "minor", {"wcag2a", "wcag2aa"}),
       Rule("region", "moderate", {}) >>

\* one structural finding of each severity of the result type
AdvancedKinds ==
    << Finding("missing-h1", "structure", "critical"),
       Finding("missing-keyboard-support", "keyboard", "serious"),
       Finding("touch-target-size", "touch", "moderate"),
       Finding("custom-check", "aria", "minor") >>

\* one semantic finding of each severity of the result type; cognitiveLoad is 0..10
SemanticKinds ==
    << Issue("custom-semantic", "semantic", "critical", <<6>>),
       Issue("content-readability", "cognitive", "serious", <<10>>),
       Issue("user-flow-patterns", "ux", "moderate", <<7, 5, 6>>),
       Issue("language-clarity", "cognitive", "minor", <<4, 4, 4, 4, 4>>) >>

\* the lists holding counts[i] copies of kinds[i], for i from k up
RECURSIVE Copies(_, _, _)
Copies(kinds, counts, k) ==
    IF k > Len(kinds) THEN <<>>
    ELSE Rep(counts[k], kinds[k]) \o Copies(kinds, counts, k + 1)

\* every list of at most max entries drawn from kinds, up to the order of its entries
ListsOf(kinds, max) ==
    { Copies(kinds, counts, 1) :
        counts \in { c \in [DOMAIN kinds -> 0..max] :
                       SumSeq([i \in DOMAIN kinds |-> c[i]]) <= max } }

AxeResults(violations, passes, incomplete) ==
    [violations |-> violations, passes |-> passes, incomplete |-> incomplete,
     inapplicable |-> <<Rule("video-caption", "null", {"wcag2a"})>>]

Document(name, axe, advanced, semantic) ==
    [name |-> name, axe |-> axe, advanced |-> advanced, semantic |-> semantic, elements |-> 40]

\* documents whose baseline results straddle the thresholds of the three levels
BaselineDocs ==
    { Document("page.html",
               AxeResults(violations,
                          Rep(a, PassA) \o Rep(aa, PassAA) \o Rep(aaa, PassAAA)
                            \o Rep(other, PassBestPractice),
                          Rep(other, IncompleteRule)),
               findings[1], findings[2]) :
        a \in {0, 5, 6}, aa \in {0, 8, 9}, aaa \in {0, 18, 19}, other \in {0, 1},
        violations \in ListsOf(ViolationKinds, MaxViolations),
        findings \in { <<<<>>, <<>>>>,
                       <<<<AdvancedKinds[1]>>, <<>>>>,
                       <<<<>>, <<SemanticKinds[1]>>>>,
                       <<<<AdvancedKinds[3]>>, <<SemanticKinds[3]>>>> } }

\* documents with many structural and semantic findings
FindingDocs ==
    { Document("page.html",
               AxeResults(Rep(baseline[2], ViolationKinds[3]), Rep(baseline[1], PassA),
                          Rep(baseline[3], IncompleteRule)),
               advanced, semantic) :
        \* the numbers of passes, violations and incomplete results
        baseline \in {<<0, 0, 0>>, <<1, 1, 1>>, <<3, 1, 0>>, <<3, 0, 1>>},
        advanced \in ListsOf(AdvancedKinds, MaxAdvanced),
        semantic \in ListsOf(SemanticKinds, MaxSemantic) }

ScoreDocs == BaselineDocs \cup FindingDocs

DocClean ==
    Document("clean.html", AxeResults(<<>>, <<PassA, PassAA>>, <<>>), <<>>, <<>>)

DocIssues ==
    Document("issues.html",
             AxeResults(<<ViolationKinds[1], ViolationKinds[3]>>, <<PassA>>, <<IncompleteRule>>),
             <<AdvancedKinds[1], AdvancedKinds[3]>>,
             <<SemanticKinds[2], SemanticKinds[3]>>)

ScannerDocs == {DocClean, DocIssues}

\* the settings of the scanning options panel the model draws from
ScanOptionChoices ==
    { [includeAdvanced |-> adv, includeSemantic |-> sem, includeAI |-> ai, wcagLevel |-> "AA"] :
        adv \in BOOLEAN, sem \in BOOLEAN, ai \in BOOLEAN }

-----------------------------------------------------------------------------
(* Spec: the Scanner component driving scan() and the store.               *)

\* no analyzer is constructed and nothing is exported
NoAnalysis ==
    /\ document = Null
    /\ loaded = Null
    /\ engine = Null
    /\ analyzer = Null
    /\ exported = Null
    /\ scanned = Null

Init ==
    /\ isScanning = FALSE
    /\ currentResults = Null
    /\ scanHistory = <<>>
    /\ error = Null
    /\ scans = <<>>
    /\ delivered = <<>>
    /\ nResults = 0
    /\ NoAnalysis

Next ==
    \/ \E doc \in ScannerDocs, options \in ScanOptionChoices : HandleFileScan(doc, options)
    \/ \E doc \in ScannerDocs, options \in ScanOptionChoices : HandleUrlScan(doc, options)
    \/ HandleUrlScanExternal
    \/ \E s \in DOMAIN scans : FileReadResolves(s)
    \/ \E s \in DOMAIN scans : FileReadRejects(s)
    \/ \E s \in DOMAIN scans : IframeLoads(s)
    \/ \E s \in DOMAIN scans : IframeLoadsInaccessible(s)
    \/ \E s \in DOMAIN scans : IframeErrors(s)
    \/ \E s \in DOMAIN scans : AxeResolves(s)
    \/ \E s \in DOMAIN scans, cause \in AxeFailures : AxeRejects(s, cause)
    \/ \E s \in DOMAIN scans : HandlerDelivers(s)
    \/ \E s \in DOMAIN scans : HandlerCatches(s)

Spec == Init /\ [][Next]_vars

-----------------------------------------------------------------------------
(* SpecScore: one scan of each document of ScoreDocs, from the point where *)
(* scan() awaits axe.run.                                                  *)

InitScore ==
    /\ isScanning = TRUE
    /\ currentResults = Null
    /\ scanHistory = <<>>
    /\ error = Null
    /\ \E doc \in ScoreDocs : scans = <<Invocation("file", doc, DefaultOptions, "axe")>>
    /\ delivered = <<>>
    /\ nResults = 0
    /\ NoAnalysis

NextScore == \E s \in DOMAIN scans : AxeResolves(s)

SpecScore == InitScore /\ [][NextScore]_vars

-----------------------------------------------------------------------------
(* SpecStore: the store alone, its five actions dispatched in any order.   *)

\* the n-th payload dispatched: a scan of DocIssues, with insights on even n
StorePayload(n) ==
    ResultsPayload("issues.html",
        ScanBody(DocIssues, [DefaultOptions EXCEPT !.includeAI = (n % 2 = 0)], n))

StoreErrors == {CatchMessage("file"), "Failed to load the URL"}

DispatchStartScan ==
    /\ startScan
    /\ UNCHANGED <<scans, delivered, nResults>>
    /\ UNCHANGED analysisVars

DispatchSetScanResults ==
    /\ nResults < MaxResults
    /\ setScanResults(StorePayload(nResults + 1))
    /\ delivered' = Append(delivered, StorePayload(nResults + 1))
    /\ nResults' = nResults + 1
    /\ UNCHANGED scans
    /\ UNCHANGED analysisVars

DispatchSetScanError(message) ==
    /\ setScanError(message)
    /\ UNCHANGED <<scans, delivered, nResults>>
    /\ UNCHANGED analysisVars

DispatchClearResults ==
    /\ clearResults
    /\ UNCHANGED <<scans, delivered, nResults>>
    /\ UNCHANGED analysisVars

DispatchClearHistory ==
    /\ clearHistory
    /\ delivered' = <<>>
    /\ UNCHANGED <<scans, nResults>>
    /\ UNCHANGED analysisVars

NextStore ==
    \/ DispatchStartScan
    \/ DispatchSetScanResults
    \/ \E message \in StoreErrors : DispatchSetScanError(message)
    \/ DispatchClearResults
    \/ DispatchClearHistory

SpecStore == Init /\ [][NextStore]_vars

-----------------------------------------------------------------------------
(* Properties.  The expected values below are computed from the lists of   *)
(* a result by counting, independently of the operators above.             *)

\* the invocations whose scan() has returned a report that is not yet delivered
Returned == {s \in DOMAIN scans : scans[s].pc = "returned"}

ResultOf(s) == scans[s].returned[1]

CountSeverity(list, severity) == Cardinality({i \in DOMAIN list : list[i].severity = severity})

CountImpact(list, impact) == Cardinality({i \in DOMAIN list : list[i].impact = impact})

CountTagged(list, tag) == Cardinality({i \in DOMAIN list : tag \in list[i].tags})

AtLeast(score, k) == score.num >= k * score.den

InRange(score) == 0 <= score.num /\ score.num <= 100 * score.den

HasCriticalIssue(r) ==
    \/ \E i \in DOMAIN r.violations : r.violations[i].impact = "critical"
    \/ \E i \in DOMAIN r.advancedViolations : r.advancedViolations[i].severity = "critical"
    \/ \E i \in DOMAIN r.semanticIssues : r.semanticIssues[i].severity = "critical"

ExpectedAdvancedPenalty(r) ==
    25 * CountSeverity(r.advancedViolations, "critical")
      + 15 * CountSeverity(r.advancedViolations, "serious")
      + 8 * CountSeverity(r.advancedViolations, "moderate")
      + 3 * CountSeverity(r.advancedViolations, "minor")

ExpectedSemanticPenalty(r) ==
    20 * CountSeverity(r.semanticIssues, "critical")
      + 12 * CountSeverity(r.semanticIssues, "serious")
      + 6 * CountSeverity(r.semanticIssues, "moderate")
      + 2 * CountSeverity(r.semanticIssues, "minor")

\* clamp(n/d, 0, 100) for d > 0
Clamp(n, d) == IF n < 0 THEN RInt(0) ELSE IF n > 100 * d THEN RInt(100) ELSE Rat(n, d)

\* clamp(axeScore - (advancedPenalty + semanticPenalty)/2, 0, 100) over the common denominator
ExpectedOverall(r) ==
    LET p == Len(r.passes)
        t == Len(r.passes) + Len(r.violations) + Len(r.incomplete)
        penalty == ExpectedAdvancedPenalty(r) + ExpectedSemanticPenalty(r)
    IN  IF t = 0 THEN Clamp(200 - penalty, 2) ELSE Clamp(200 * p - penalty * t, 2 * t)

ExpectedLevelScore(r, tag) ==
    LET p == CountTagged(r.passes, tag)
        v == CountTagged(r.violations, tag)
    IN  IF p + v = 0 THEN RInt(100) ELSE Rat(100 * p, p + v)

\* C1: whenever a returned report holds a critical issue in any of the three
\* sources, its compliance level is Non-compliant, whatever its level scores.
C1_CriticalForcesNonCompliant ==
    \A s \in Returned :
        HasCriticalIssue(ResultOf(s)) => ResultOf(s).compliance.level = "Non-compliant"

\* the only critical issue is a semantic one and all three level scores are 100
C1_Witness ==
    \E s \in Returned :
        LET r == ResultOf(s)
        IN  /\ \E i \in DOMAIN r.semanticIssues : r.semanticIssues[i].severity = "critical"
            /\ \A i \in DOMAIN r.violations : r.violations[i].impact # "critical"
            /\ \A i \in DOMAIN r.advancedViolations : r.advancedViolations[i].severity # "critical"
            /\ r.scores.wcagA = RInt(100)
            /\ r.scores.wcagAA = RInt(100)
            /\ r.scores.wcagAAA = RInt(100)
            /\ Len(r.passes) > 0
            /\ r.compliance.level = "Non-compliant"

\* C2: with no critical issue in any source, the level is the first match of
\* AAA if wcagAAA >= 95, AA if wcagAA >= 90, A if wcagA >= 85, else Non-compliant.
C2_Cascade ==
    \A s \in Returned :
        LET r == ResultOf(s)
        IN  ~HasCriticalIssue(r) =>
               r.compliance.level =
                  IF AtLeast(r.scores.wcagAAA, 95) THEN "AAA"
                  ELSE IF AtLeast(r.scores.wcagAA, 90) THEN "AA"
                  ELSE IF AtLeast(r.scores.wcagA, 85) THEN "A"
                  ELSE "Non-compliant"

\* no critical issue, wcagAAA exactly 95 and wcagA below 85: the first rule decides
C2_Witness ==
    \E s \in Returned :
        LET r == ResultOf(s)
        IN  /\ ~HasCriticalIssue(r)
            /\ r.scores.wcagAAA = RInt(95)
            /\ ~AtLeast(r.scores.wcagA, 85)
            /\ r.compliance.level = "AAA"

\* C3: scores.overall is clamp(axeScore - (advancedPenalty + semanticPenalty)/2, 0, 100)
\* with the baseline score and the two weight tables of the claim.
C3_OverallFormula ==
    \A s \in Returned : ResultOf(s).scores.overall = ExpectedOverall(ResultOf(s))

\* both penalties and an incomplete result take part, and the score is a fraction
C3_Witness ==
    \E s \in Returned :
        LET r == ResultOf(s)
        IN  /\ ExpectedAdvancedPenalty(r) > 0
            /\ ExpectedSemanticPenalty(r) > 0
            /\ Len(r.incomplete) > 0
            /\ Len(r.violations) > 0
            /\ r.scores.overall.num > 0
            /\ r.scores.overall.den > 1

\* the critical and serious findings a second document may have in addition
AdditionalFindings ==
    { extra \in ListsOf(<<AdvancedKinds[1], AdvancedKinds[2]>>, MaxExtra)
                  \X ListsOf(<<SemanticKinds[1], SemanticKinds[2]>>, MaxExtra) :
        Len(extra[1]) + Len(extra[2]) > 0 }

\* the report of the same scan on the document with the findings of extra added
RescanWith(s, extra) ==
    ScanBody([scans[s].doc EXCEPT !.advanced = @ \o extra[1], !.semantic = @ \o extra[2]],
             scans[s].options, s)

\* C4: a document that differs from the scanned one only by additional critical or
\* serious structural or semantic findings never gets a higher overall score.
C4_OverallMonotone ==
    \A s \in Returned : \A extra \in AdditionalFindings :
        RLeq(RescanWith(s, extra).scores.overall, ResultOf(s).scores.overall)

\* a report with a positive score that one more serious structural finding lowers
C4_Witness ==
    \E s \in Returned :
        /\ ResultOf(s).scores.overall.num > 0
        /\ Len(ResultOf(s).advancedViolations) > 0
        /\ ~RLeq(ResultOf(s).scores.overall,
                 RescanWith(s, <<<<AdvancedKinds[2]>>, <<>>>>).scores.overall)

\* the result with nothing but its baseline passes and violations
BaselineOnly(r) ==
    [r EXCEPT !.incomplete = <<>>, !.inapplicable = <<>>,
              !.advancedViolations = <<>>, !.semanticIssues = <<>>]

\* C5: each level score is passes/(passes + violations) * 100 over the baseline
\* results carrying the level's tag, 100 when there is none, and is the same
\* without the incomplete and inapplicable results and the findings.
C5_LevelScores ==
    \A s \in Returned :
        LET r == ResultOf(s)
        IN  /\ r.scores.wcagA = ExpectedLevelScore(r, "wcag2a")
            /\ r.scores.wcagAA = ExpectedLevelScore(r, "wcag2aa")
            /\ r.scores.wcagAAA = ExpectedLevelScore(r, "wcag2aaa")
            /\ calculateScores(BaselineOnly(r)).wcagA = r.scores.wcagA
            /\ calculateScores(BaselineOnly(r)).wcagAA = r.scores.wcagAA
            /\ calculateScores(BaselineOnly(r)).wcagAAA = r.scores.wcagAAA

\* a level with passes and violations, a level with no test, and results of every other kind
C5_Witness ==
    \E s \in Returned :
        LET r == ResultOf(s)
        IN  /\ r.scores.wcagA.num > 0
            /\ ~AtLeast(r.scores.wcagA, 100)
            /\ CountTagged(r.passes, "wcag2aaa") = 0
            /\ CountTagged(r.violations, "wcag2aaa") = 0
            /\ r.scores.wcagAAA = RInt(100)
            /\ CountTagged(r.incomplete, "wcag2aaa") > 0
            /\ Len(r.inapplicable) > 0
            /\ Len(r.advancedViolations) > 0
            /\ Len(r.semanticIssues) > 0

\* C6: each of the six scores of a returned report lies in 0..100.
C6_ScoresInRange ==
    \A s \in Returned :
        LET scores == ResultOf(s).scores
        IN  /\ InRange(scores.overall)
            /\ InRange(scores.wcagA)
            /\ InRange(scores.wcagAA)
            /\ InRange(scores.wcagAAA)
            /\ InRange(scores.semantic)
            /\ InRange(scores.cognitive)

\* the semantic penalty exceeds 100 and the clamps hold the scores at 0
C6_Witness ==
    \E s \in Returned :
        LET r == ResultOf(s)
        IN  /\ ExpectedSemanticPenalty(r) > 100
            /\ r.scores.semantic = RInt(0)
            /\ r.scores.overall = RInt(0)

\* the first MaxHistory entries of the delivered payloads, newest first, as JSON copies
ExpectedHistory ==
    LET n == Len(delivered)
        k == IF n > MaxHistory THEN MaxHistory ELSE n
    IN  [i \in 1..k |-> JSONClone(delivered[n - i + 1])]

\* C7: scanHistory holds the reports delivered since the last clearHistory, newest
\* first, the oldest dropped beyond 10 entries.
C7_BoundedHistory ==
    /\ Len(scanHistory) <= MaxHistory
    /\ scanHistory = ExpectedHistory

\* more than 10 reports were delivered since the last clearHistory: the oldest is gone
C7_Witness ==
    /\ Len(delivered) > MaxHistory
    /\ Len(scanHistory) = MaxHistory
    /\ scanHistory[1].timestamp = nResults
    /\ scanHistory[MaxHistory].timestamp = nResults - MaxHistory + 1

\* the step in which invocation s of a running scan ends in failure
ScanFails(s) == scans[s].pc \notin {"done", "failed"} /\ scans'[s].pc = "failed"

\* the step in which invocation s delivers its report
ScanSucceeds(s) == scans[s].pc = "returned" /\ scans'[s].pc = "done"

\* C8: a failing scan leaves error non-null and isScanning false and changes
\* neither scanHistory nor currentResults (so does the refusal of an external
\* address, the only other step that sets error), while a delivered report
\* leaves error null.
C8_FailureIsAnErrorState ==
    [][/\ \A s \in DOMAIN scans :
             /\ ScanFails(s) =>
                   /\ error' # Null
                   /\ isScanning' = FALSE
                   /\ scanHistory' = scanHistory
                   /\ currentResults' = currentResults
             /\ ScanSucceeds(s) =>
                   /\ error' = Null
                   /\ isScanning' = FALSE
                   /\ currentResults' # Null
       /\ (error' # Null /\ error' # error) =>
             /\ isScanning' = FALSE
             /\ scanHistory' = scanHistory
             /\ currentResults' = currentResults]_vars

\* a scan has failed after an earlier one delivered its report, which is still current
C8_Witness ==
    /\ \E s \in DOMAIN scans : scans[s].pc = "failed"
    /\ error # Null
    /\ ~isScanning
    /\ currentResults # Null
    /\ Len(scanHistory) = 1
    /\ scanHistory[1].timestamp = 1
    /\ Len(scans) = 2

\* C9: when axe.run rejects, scan() throws one error whose message is
\* 'Accessibility scan failed: ' followed by the cause's message, returns no
\* report and runs neither analyzer.
C9_AxeFailureIsFatal ==
    \A s \in DOMAIN scans :
        /\ scans[s].pc = "threw" =>
              /\ scans[s].cause # Null
              /\ scans[s].thrown =
                    Some("Accessibility scan failed: "
                           \o (IF scans[s].cause[1].isError
                               THEN scans[s].cause[1].message
                               ELSE "Unknown error"))
              /\ scans[s].returned = Null
              /\ scans[s].advancedRuns = 0
              /\ scans[s].semanticRuns = 0
        /\ scans[s].pc = "returned" => scans[s].cause = Null /\ scans[s].thrown = Null

\* axe.run rejected with an Error while both analyzers were enabled
C9_Witness ==
    \E s \in DOMAIN scans :
        /\ scans[s].pc = "threw"
        /\ scans[s].cause[1].isError
        /\ scans[s].options.includeAdvanced
        /\ scans[s].options.includeSemantic
        /\ scans[s].doc.advanced # <<>>

\* C10: with includeAdvanced (includeSemantic) false the report's structural
\* (semantic) list is empty, the analyzer is not run, scan() returns a report,
\* and the penalties and the critical count hold nothing of the disabled source.
C10_DisabledPassesAreEmpty ==
    \A s \in Returned :
        LET r == ResultOf(s)
            options == scans[s].options
        IN  /\ ~options.includeAdvanced =>
                  /\ r.advancedViolations = <<>>
                  /\ scans[s].advancedRuns = 0
            /\ ~options.includeSemantic =>
                  /\ r.semanticIssues = <<>>
                  /\ scans[s].semanticRuns = 0
                  /\ r.scores.semantic = RInt(100)
                  /\ r.scores.cognitive = RInt(100)
            /\ options.includeAdvanced =>
                  r.advancedViolations = scans[s].doc.advanced /\ scans[s].advancedRuns = 1
            /\ options.includeSemantic =>
                  r.semanticIssues = scans[s].doc.semantic /\ scans[s].semanticRuns = 1
            /\ scans[s].thrown = Null
            /\ r.scores.overall = ExpectedOverall(r)
            /\ r.compliance.criticalIssues =
                  CountImpact(r.violations, "critical")
                    + CountSeverity(r.advancedViolations, "critical")
                    + CountSeverity(r.semanticIssues, "critical")

\* both passes are disabled on a document with structural and semantic findings
C10_Witness ==
    \E s \in Returned :
        /\ ~scans[s].options.includeAdvanced
        /\ ~scans[s].options.includeSemantic
        /\ \E i \in DOMAIN scans[s].doc.advanced : scans[s].doc.advanced[i].severity = "critical"
        /\ scans[s].doc.semantic # <<>>
        /\ ResultOf(s).compliance.criticalIssues = 1
        /\ ResultOf(s).scores.overall = axeScore(ResultOf(s))

-----------------------------------------------------------------------------
(* The Document the analyzers read.                                        *)
(* A Document is a record: elements, the elements in document order, and   *)
(* reducedMotionRule, whether an accessible style sheet of the window      *)
(* holds a rule on prefers-reduced-motion.  An element is a record of what *)
(* the DOM reports on it: tag (lower case), parent (the index of the       *)
(* parent element, 0 for the root), classList (the class names),           *)
(* attributes (a function from the names of the attributes present to      *)
(* their values), text (the element's own trimmed text: content, its       *)
(* length chars, the numbers of words, sentences, syllables and words of   *)
(* more than two syllables, and the jargon terms in it, in order), style   *)
(* (the computed style) and rect (the bounding client rectangle).          *)
(* A colour is given by its relative luminance in thousandths, and a       *)
(* transparent background is null.  fontSize and fontWeight hold what      *)
(* parseFloat and parseInt read, null when they read NaN.                  *)

\* relative luminance is a number of thousandths in 0..LumScale
LumScale == 1000

Black == 0

White == LumScale

NoText ==
    [content |-> "", chars |-> 0, words |-> 0, sentences |-> 0, syllables |-> 0,
     complexWords |-> 0, jargon |-> <<>>]

Text(content, words, sentences, syllables, complexWords, jargon) ==
    [content |-> content, chars |-> Len(content), words |-> words, sentences |-> sentences,
     syllables |-> syllables, complexWords |-> complexWords, jargon |-> jargon]

\* a short text of one sentence without long words, such as a label or a heading
Phrase(content, words, syllables) == Text(content, words, 1, syllables, 0, <<>>)

DefaultStyle ==
    [color |-> Black, backgroundColor |-> Null, fontSize |-> Some(16), fontWeight |-> Some(400),
     animationName |-> "none", transitionProperty |-> "none"]

DefaultElement ==
    [tag |-> "div", parent |-> 0, classList |-> <<>>, attributes |-> <<>>,
     text |-> NoText, style |-> DefaultStyle, rect |-> [width |-> 120, height |-> 48]]

\* the element of the given tag and parent that differs from DefaultElement in props
El(tag, parent, props) ==
    [k \in DOMAIN DefaultElement |->
        IF k = "tag" THEN tag
        ELSE IF k = "parent" THEN parent
        ELSE IF k \in DOMAIN props THEN props[k]
        ELSE DefaultElement[k]]

Elements(doc) == DOMAIN doc.elements

\* the members of a set of indices in document order
InOrder(S) ==
    [i \in 1..Cardinality(S) |-> CHOOSE x \in S : Cardinality({y \in S : y < x}) = i - 1]

\* whether a is e or an ancestor of e
RECURSIVE Contains(_, _, _)
Contains(doc, a, e) ==
    IF e = a THEN TRUE
    ELSE IF e = 0 THEN FALSE
    ELSE Contains(doc, a, doc.elements[e].parent)

\* a and its descendants, in document order
Subtree(doc, a) == InOrder({e \in Elements(doc) : Contains(doc, a, e)})

hasAttribute(el, name) == name \in DOMAIN el.attributes

\* null when the attribute is absent
getAttribute(el, name) == IF hasAttribute(el, name) THEN Some(el.attributes[name]) ELSE Null

\* a string value that is neither null nor empty
Truthy(value) == value # Null /\ value[1] # ""

RECURSIVE Concat(_)
Concat(s) == IF s = <<>> THEN <<>> ELSE Head(s) \o Concat(Tail(s))

RECURSIVE Join(_)
Join(s) == IF s = <<>> THEN "" ELSE Head(s) \o Join(Tail(s))

\* element.textContent, trimmed: the text of the element and of its descendants
textContent(doc, e) ==
    LET sub == Subtree(doc, e)
        own(i) == doc.elements[sub[i]].text
    IN  [content      |-> Join([i \in DOMAIN sub |-> own(i).content]),
         chars        |-> SumSeq([i \in DOMAIN sub |-> own(i).chars]),
         words        |-> SumSeq([i \in DOMAIN sub |-> own(i).words]),
         sentences    |-> SumSeq([i \in DOMAIN sub |-> own(i).sentences]),
         syllables    |-> SumSeq([i \in DOMAIN sub |-> own(i).syllables]),
         complexWords |-> SumSeq([i \in DOMAIN sub |-> own(i).complexWords]),
         jargon       |-> Concat([i \in DOMAIN sub |-> own(i).jargon])]

\* the nearest of e and its ancestors whose tag is in tags, 0 when there is none
RECURSIVE closest(_, _, _)
closest(doc, e, tags) ==
    IF e = 0 THEN 0
    ELSE IF doc.elements[e].tag \in tags THEN e
    ELSE closest(doc, doc.elements[e].parent, tags)

getElementSelector(el) ==
    IF Truthy(getAttribute(el, "id")) THEN "#" \o el.attributes["id"]
    ELSE IF el.classList # <<>> THEN el.tag \o "." \o el.classList[1]
    ELSE el.tag

\* element.outerHTML, as far as the findings show it: the start tag
outerHTML(el) == [tag |-> el.tag, attributes |-> el.attributes]

\* a text built from a template and the numbers put into it
Template(text, values) == [text |-> text, values |-> values]

-----------------------------------------------------------------------------
(* AdvancedAccessibilityEngine: the eight algorithms of analyze().         *)

RLt(a, b) == a.num * b.den < b.num * a.den

\* a / b for b > 0
RDiv(a, b) == Rat(a.num * b.den, a.den * b.num)

RTimes(a, k) == Rat(a.num * k, a.den)

\* an entry of AdvancedAccessibilityResult.elements
ElementEntry(selector, html, issue, suggestion) ==
    [selector |-> selector, html |-> html, issue |-> issue, suggestion |-> suggestion]

AdvancedResult(testId, level, category, severity, description, wcagCriterion, elements, score, autoFixable) ==
    [ testId |-> testId, level |-> level, category |-> category, severity |-> severity,
      description |-> description, wcagCriterion |-> wcagCriterion, elements |-> elements,
      score |-> score, autoFixable |-> autoFixable ]

\* a faulty contrastRatio: foreground over background, whichever is lighter
contrastRatioUnordered(fgLuminance, bgLuminance) ==
    Rat(fgLuminance + LumScale \div 20, bgLuminance + LumScale \div 20)

\* (Math.max(fg, bg) + 0.05) / (Math.min(fg, bg) + 0.05)
contrastRatio(fgLuminance, bgLuminance) ==
    LET lighter == IF fgLuminance >= bgLuminance THEN fgLuminance ELSE bgLuminance
        darker  == IF fgLuminance >= bgLuminance THEN bgLuminance ELSE fgLuminance
    IN  Rat(lighter + LumScale \div 20, darker + LumScale \div 20)

\* the background of the nearest of e and its ancestors that is not transparent, else white
RECURSIVE getEffectiveBackgroundColor(_, _)
getEffectiveBackgroundColor(doc, e) ==
    IF e = 0 THEN White
    ELSE IF doc.elements[e].style.backgroundColor # Null
         THEN doc.elements[e].style.backgroundColor[1]
    ELSE getEffectiveBackgroundColor(doc, doc.elements[e].parent)

\* parseInt(styles.fontWeight) || 400
FontWeight(style) ==
    IF style.fontWeight = Null \/ style.fontWeight = Some(0) THEN 400 ELSE style.fontWeight[1]

\* fontSize >= 18 || (fontSize >= 14 && fontWeight >= 700); a comparison with NaN is false
isLargeText(style) ==
    /\ style.fontSize # Null
    /\ \/ style.fontSize[1] >= 18
       \/ style.fontSize[1] >= 14 /\ FontWeight(style) >= 700

\* a faulty calculateContrastRatio: a ratio equal to the requirement does not pass
calculateContrastRatioStrict(doc, e) ==
    LET style == doc.elements[e].style
        ratio == contrastRatio(style.color, getEffectiveBackgroundColor(doc, e))
        aaRequired  == IF isLargeText(style) THEN RInt(3) ELSE Rat(9, 2)
        aaaRequired == IF isLargeText(style) THEN Rat(9, 2) ELSE RInt(7)
    IN  [ foreground |-> style.color,
          background |-> getEffectiveBackgroundColor(doc, e),
          ratio |-> ratio,
          requiredRatio |-> aaaRequired,
          passes |-> RLt(aaRequired, ratio),
          level |-> IF RLeq(aaaRequired, ratio) THEN "AAA" ELSE "AA" ]

calculateContrastRatio(doc, e) ==
    LET style == doc.elements[e].style
        ratio == contrastRatio(style.color, getEffectiveBackgroundColor(doc, e))
        aaRequired  == IF isLargeText(style) THEN RInt(3) ELSE Rat(9, 2)
        aaaRequired == IF isLargeText(style) THEN Rat(9, 2) ELSE RInt(7)
    IN  [ foreground |-> style.color,
          background |-> getEffectiveBackgroundColor(doc, e),
          ratio |-> ratio,
          requiredRatio |-> aaaRequired,
          passes |-> RLeq(aaRequired, ratio),
          level |-> IF RLeq(aaaRequired, ratio) THEN "AAA" ELSE "AA" ]

\* the elements the contrast algorithm looks at: trimmed text of three characters or more
HasContrastText(doc, e) == textContent(doc, e).chars >= 3

\* a faulty finding: a ratio of exactly 3 is still critical
ContrastResultInclusive(doc, e) ==
    LET analysis == calculateContrastRatio(doc, e)
        el == doc.elements[e]
    IN  AdvancedResult(
          "advanced-contrast-ratio", analysis.level, "contrast",
          IF RLeq(analysis.ratio, RInt(3)) THEN "critical"
          ELSE IF RLt(analysis.ratio, Rat(9, 2)) THEN "serious" ELSE "moderate",
          Template("Text contrast ratio is below the required ratio",
                   <<analysis.ratio, analysis.requiredRatio>>),
          IF analysis.level = "AAA" THEN "1.4.6" ELSE "1.4.3",
          << [ selector |-> getElementSelector(el),
               html |-> outerHTML(el),
               issue |-> Template("Contrast ratio is insufficient", <<analysis.ratio>>),
               suggestion |-> Template("Increase contrast", <<analysis.requiredRatio>>),
               computedStyles |->
                   [color |-> analysis.foreground, backgroundColor |-> analysis.background,
                    fontSize |-> el.style.fontSize, fontWeight |-> el.style.fontWeight] ] >>,
          MathMax(RInt(0), RTimes(RDiv(analysis.ratio, analysis.requiredRatio), 100)),
          TRUE)

\* the finding pushed for element e, whose analysis does not pass
ContrastResult(doc, e) ==
    LET analysis == calculateContrastRatio(doc, e)
        el == doc.elements[e]
    IN  AdvancedResult(
          "advanced-contrast-ratio", analysis.level, "contrast",
          IF RLt(analysis.ratio, RInt(3)) THEN "critical"
          ELSE IF RLt(analysis.ratio, Rat(9, 2)) THEN "serious" ELSE "moderate",
          Template("Text contrast ratio is below the required ratio",
                   <<analysis.ratio, analysis.requiredRatio>>),
          IF analysis.level = "AAA" THEN "1.4.6" ELSE "1.4.3",
          << [ selector |-> getElementSelector(el),
               html |-> outerHTML(el),
               issue |-> Template("Contrast ratio is insufficient", <<analysis.ratio>>),
               suggestion |-> Template("Increase contrast", <<analysis.requiredRatio>>),
               computedStyles |->
                   [color |-> analysis.foreground, backgroundColor |-> analysis.background,
                    fontSize |-> el.style.fontSize, fontWeight |-> el.style.fontWeight] ] >>,
          MathMax(RInt(0), RTimes(RDiv(analysis.ratio, analysis.requiredRatio), 100)),
          TRUE)

analyzeContrastRatios(doc) ==
    LET failing == SelectSeq(InOrder(Elements(doc)),
                             LAMBDA e : HasContrastText(doc, e)
                                          /\ ~calculateContrastRatio(doc, e).passes)
    IN  [i \in DOMAIN failing |-> ContrastResult(doc, failing[i])]

HeadingTags == {"h1", "h2", "h3", "h4", "h5", "h6"}

\* parseInt(h.tagName.charAt(1))
HeadingLevel(tag) ==
    CASE tag = "h1" -> 1 [] tag = "h2" -> 2 [] tag = "h3" -> 3
      [] tag = "h4" -> 4 [] tag = "h5" -> 5 [] tag = "h6" -> 6

createHeadingResult(testId, severity) ==
    AdvancedResult(testId, "A", "structure", severity,
                   Template("Proper heading structure is essential for screen reader navigation.",
                            <<>>),
                   "1.3.1", <<>>,
                   IF severity = "critical" THEN RInt(0)
                   ELSE IF severity = "serious" THEN RInt(25) ELSE RInt(50),
                   TRUE)

\* the finding pushed for the heading at position i of headings, which skips a level
HeadingSkipResult(doc, headings, i) ==
    LET current == doc.elements[headings[i]]
        previous == doc.elements[headings[i - 1]]
    IN  AdvancedResult("heading-level-skip", "A", "structure", "moderate",
                       Template("Heading jumped, skipping intermediate levels.",
                                <<RInt(HeadingLevel(previous.tag)), RInt(HeadingLevel(current.tag))>>),
                       "1.3.1",
                       <<ElementEntry(getElementSelector(current), outerHTML(current),
                                      Template("Skipped heading level",
                                               <<RInt(HeadingLevel(previous.tag)),
                                                 RInt(HeadingLevel(current.tag))>>),
                                      Template("Use sequential heading levels",
                                               <<RInt(HeadingLevel(previous.tag) + 1)>>))>>,
                       RInt(60), TRUE)

\* a faulty analyzeHeadingStructure: a skip is any heading deeper than the one before it
analyzeHeadingStructureAnyDescent(doc) ==
    LET headings == InOrder({e \in Elements(doc) : doc.elements[e].tag \in HeadingTags})
        level(i) == HeadingLevel(doc.elements[headings[i]].tag)
        h1Count == Cardinality({i \in DOMAIN headings : level(i) = 1})
        skips == SelectSeq(InOrder(DOMAIN headings \ {1}), LAMBDA i : level(i) > level(i - 1))
    IN  (IF h1Count = 0 THEN <<createHeadingResult("missing-h1", "critical")>>
         ELSE IF h1Count > 1 THEN <<createHeadingResult("multiple-h1", "serious")>>
         ELSE <<>>)
          \o [k \in DOMAIN skips |-> HeadingSkipResult(doc, headings, skips[k])]

analyzeHeadingStructure(doc) ==
    LET headings == InOrder({e \in Elements(doc) : doc.elements[e].tag \in HeadingTags})
        level(i) == HeadingLevel(doc.elements[headings[i]].tag)
        h1Count == Cardinality({i \in DOMAIN headings : level(i) = 1})
        skips == SelectSeq(InOrder(DOMAIN headings \ {1}), LAMBDA i : level(i) > level(i - 1) + 1)
    IN  (IF h1Count = 0 THEN <<createHeadingResult("missing-h1", "critical")>>
         ELSE IF h1Count > 1 THEN <<createHeadingResult("multiple-h1", "serious")>>
         ELSE <<>>)
          \o [k \in DOMAIN skips |-> HeadingSkipResult(doc, headings, skips[k])]

NativeTags == {"a", "button", "input", "select", "textarea"}

\* the role attribute, "" when absent
Role(el) == IF hasAttribute(el, "role") THEN el.attributes["role"] ELSE ""

\* 'a, button, input, select, textarea, [tabindex], [onclick], [role="button"],
\*  [role="link"], [role="menuitem"]'
IsInteractive(el) ==
    \/ el.tag \in NativeTags
    \/ hasAttribute(el, "tabindex")
    \/ hasAttribute(el, "onclick")
    \/ Role(el) \in {"button", "link", "menuitem"}

isNativelyFocusable(el) ==
    \/ el.tag \in NativeTags
    \/ el.tag = "input" /\ getAttribute(el, "type") # Some("hidden")
    \/ hasAttribute(el, "href")
    \/ hasAttribute(el, "tabindex")

\* Function.prototype.length of EventTarget.prototype.addEventListener
AddEventListenerLength == 2

hasClickHandler(el) ==
    \/ hasAttribute(el, "onclick")
    \/ AddEventListenerLength > 0
    \/ Role(el) = "button"

\* the elements pushed to problematicElements
IsProblematic(el) ==
    \/ getAttribute(el, "tabindex") = Some("-1") /\ ~isNativelyFocusable(el)
    \/ /\ ~(getAttribute(el, "tabindex") = Some("-1") /\ ~isNativelyFocusable(el))
       /\ getAttribute(el, "tabindex") = Null
       /\ ~isNativelyFocusable(el)
       /\ hasClickHandler(el)

simulateTabTraversal(elements) == [hasTraps |-> FALSE, trapElements |-> <<>>]

NoValues == <<>>

analyzeKeyboardAccessibility(doc) ==
    LET interactive == SelectSeq(InOrder(Elements(doc)),
                                 LAMBDA e : IsInteractive(doc.elements[e]))
        problematic == SelectSeq(interactive, LAMBDA e : IsProblematic(doc.elements[e]))
        focusable   == SelectSeq(interactive, LAMBDA e : ~IsProblematic(doc.elements[e]))
        tabOrder    == simulateTabTraversal(focusable)
        shown       == SliceTo(problematic, 10)
    IN  (IF tabOrder.hasTraps
         THEN <<AdvancedResult("keyboard-trap", "A", "keyboard", "critical",
                  Template("Users may become trapped in a section of the page.", NoValues),
                  "2.1.2",
                  [i \in DOMAIN tabOrder.trapElements |->
                      ElementEntry(getElementSelector(doc.elements[tabOrder.trapElements[i]]),
                                   outerHTML(doc.elements[tabOrder.trapElements[i]]),
                                   Template("Focus trap prevents keyboard navigation", NoValues),
                                   Template("Ensure users can navigate away", NoValues))],
                  RInt(0), FALSE)>>
         ELSE <<>>)
          \o (IF Len(problematic) > 0
              THEN <<AdvancedResult("missing-keyboard-support", "A", "keyboard", "serious",
                       Template("Interactive elements must be operable via keyboard.", NoValues),
                       "2.1.1",
                       [i \in DOMAIN shown |->
                           ElementEntry(getElementSelector(doc.elements[shown[i]]),
                                        outerHTML(doc.elements[shown[i]]),
                                        Template("Click handler without keyboard equivalent",
                                                 NoValues),
                                        Template("Add tabindex and a key handler", NoValues))],
                       RInt(30), TRUE)>>
              ELSE <<>>)

\* the alternative texts that match /^image$/i, /^picture$/i, /^photo$/i, /^img\d*$/i
\* or /^dsc\d+$/i, among the texts the documents of the model use
LowInformationAlts == {"image", "Picture", "photo", "img", "IMG12", "DSC0042"}

\* src.split('/').pop()?.split('.')[0] || '', for the addresses the documents use
FileStem(src) ==
    CASE src = "" -> ""
      [] src = "hero.jpg" -> "hero"
      [] src = "assets/team.png" -> "team"

\* new RegExp(filename, 'i').test(alt), among the texts the documents use:
\* the empty pattern matches every text
MatchesFileName(alt, filename) ==
    \/ filename = ""
    \/ filename = "hero" /\ alt \in {"hero", "Hero banner"}
    \/ filename = "team" /\ alt \in {"team", "Our team at work"}

isLowQualityAltText(alt, el) ==
    LET src == IF hasAttribute(el, "src") THEN el.attributes["src"] ELSE ""
    IN  \/ alt \in LowInformationAlts
        \/ MatchesFileName(alt, FileStem(src))
        \/ Len(alt) < 3

\* 'img, svg, [role="img"]'
IsImage(el) == el.tag \in {"img", "svg"} \/ Role(el) = "img"

IsProblematicImage(el) ==
    LET alt == getAttribute(el, "alt")
        hasTextAlternative ==
            \/ alt # Null
            \/ Truthy(getAttribute(el, "aria-label"))
            \/ Truthy(getAttribute(el, "aria-labelledby"))
        isDecorative == Role(el) \in {"presentation", "none"} \/ alt = Some("")
    IN  IF ~hasTextAlternative /\ ~isDecorative THEN TRUE
        ELSE Truthy(alt) /\ isLowQualityAltText(alt[1], el)

analyzeImageAccessibility(doc) ==
    LET problematic == SelectSeq(InOrder(Elements(doc)),
                                 LAMBDA e : IsImage(doc.elements[e])
                                              /\ IsProblematicImage(doc.elements[e]))
    IN  IF Len(problematic) > 0
        THEN <<AdvancedResult("image-alt-text-issues", "A", "images", "serious",
                 Template("Images must have appropriate alternative text.", NoValues),
                 "1.1.1",
                 [i \in DOMAIN problematic |->
                     LET img == doc.elements[problematic[i]]
                     IN  ElementEntry(getElementSelector(img), outerHTML(img),
                                      IF ~Truthy(getAttribute(img, "alt"))
                                      THEN Template("Missing alt attribute", NoValues)
                                      ELSE Template("Poor alt text: " \o img.attributes["alt"],
                                                    NoValues),
                                      IF closest(doc, problematic[i], {"a", "button"}) # 0
                                      THEN Template("Describe the image in link/button context",
                                                    NoValues)
                                      ELSE Template("Describe the image in standalone image",
                                                    NoValues))],
                 RInt(20), FALSE)>>
        ELSE <<>>

\* a faulty hasProperLabel: a name attribute counts as a label
hasProperLabelByName(doc, e) ==
    LET control == doc.elements[e]
        id == getAttribute(control, "id")
    IN  \/ Truthy(getAttribute(control, "aria-label"))
        \/ Truthy(getAttribute(control, "aria-labelledby"))
        \/ Truthy(getAttribute(control, "name"))
        \/ /\ Truthy(id)
           /\ \E l \in Elements(doc) :
                 doc.elements[l].tag = "label" /\ getAttribute(doc.elements[l], "for") = id
        \/ closest(doc, e, {"label"}) # 0

hasProperLabel(doc, e) ==
    LET control == doc.elements[e]
        id == getAttribute(control, "id")
    IN  \/ Truthy(getAttribute(control, "aria-label"))
        \/ Truthy(getAttribute(control, "aria-labelledby"))
        \/ /\ Truthy(id)
           /\ \E l \in Elements(doc) :
                 doc.elements[l].tag = "label" /\ getAttribute(doc.elements[l], "for") = id
        \/ closest(doc, e, {"label"}) # 0

FormControlTags == {"input", "select", "textarea"}

analyzeFormAccessibility(doc) ==
    LET unlabeled == SelectSeq(InOrder(Elements(doc)),
                               LAMBDA e : doc.elements[e].tag \in FormControlTags
                                            /\ ~hasProperLabel(doc, e))
    IN  IF Len(unlabeled) > 0
        THEN <<AdvancedResult("form-labels-missing", "A", "forms", "serious",
                 Template("All form controls must have accessible labels.", NoValues),
                 "1.3.1",
                 [i \in DOMAIN unlabeled |->
                     ElementEntry(getElementSelector(doc.elements[unlabeled[i]]),
                                  outerHTML(doc.elements[unlabeled[i]]),
                                  Template("No associated label found", NoValues),
                                  Template("Add a label element, aria-label or aria-labelledby",
                                           NoValues))],
                 RInt(15), TRUE)>>
        ELSE <<>>

\* const minSize = 44
MinTouchSize == 44

\* 'a, button, input[type="button"], input[type="submit"], [onclick], [role="button"]'
IsTouchTarget(el) ==
    \/ el.tag \in {"a", "button"}
    \/ el.tag = "input" /\ getAttribute(el, "type") \in {Some("button"), Some("submit")}
    \/ hasAttribute(el, "onclick")
    \/ Role(el) = "button"

isDecorativeTarget(doc, e) ==
    LET parent == closest(doc, e, {"a", "button"})
    IN  IF parent = 0 THEN FALSE ELSE textContent(doc, parent).chars < 2

analyzeTouchTargets(doc) ==
    LET small == SelectSeq(InOrder(Elements(doc)),
                           LAMBDA e : /\ IsTouchTarget(doc.elements[e])
                                      /\ \/ doc.elements[e].rect.width < MinTouchSize
                                         \/ doc.elements[e].rect.height < MinTouchSize
                                      /\ ~isDecorativeTarget(doc, e))
        shown == SliceTo(small, 10)
    IN  IF Len(small) > 0
        THEN <<AdvancedResult("touch-target-size", "AA", "touch", "moderate",
                 Template("Interactive elements should be at least 44 by 44 pixels.", NoValues),
                 "2.5.5",
                 [i \in DOMAIN shown |->
                     ElementEntry(getElementSelector(doc.elements[shown[i]]),
                                  outerHTML(doc.elements[shown[i]]),
                                  Template("Size",
                                           <<RInt(doc.elements[shown[i]].rect.width),
                                             RInt(doc.elements[shown[i]].rect.height)>>),
                                  Template("Increase padding or minimum dimensions", NoValues))],
                 RInt(60), TRUE)>>
        ELSE <<>>

\* 'main, [role="main"]'
IsMain(el) == el.tag = "main" \/ Role(el) = "main"

analyzeARIACompliance(doc) ==
    LET mainElements == SelectSeq(InOrder(Elements(doc)), LAMBDA e : IsMain(doc.elements[e]))
    IN  (IF Len(mainElements) = 0
         THEN <<AdvancedResult("missing-main-landmark", "AA", "aria", "moderate",
                  Template("Pages should have a main landmark.", NoValues),
                  "1.3.1",
                  <<ElementEntry("body", [tag |-> "body", attributes |-> <<>>],
                                 Template("No main element or role=main found", NoValues),
                                 Template("Add a main element or role=main", NoValues))>>,
                  RInt(70), TRUE)>>
         ELSE <<>>)
          \o (IF Len(mainElements) > 1
              THEN <<AdvancedResult("multiple-main-landmarks", "AA", "aria", "moderate",
                       Template("Pages should have only one main landmark.", NoValues),
                       "1.3.1",
                       [i \in DOMAIN mainElements |->
                           ElementEntry(getElementSelector(doc.elements[mainElements[i]]),
                                        outerHTML(doc.elements[mainElements[i]]),
                                        Template("Multiple main landmarks detected", NoValues),
                                        Template("Ensure only one main element exists",
                                                 NoValues))],
                       RInt(70), FALSE)>>
              ELSE <<>>)

\* the class names that include 'animate', among those the documents use
AnimateClasses == {"animate", "animate-spin", "animated"}

findAnimatedElements(doc) ==
    SelectSeq(InOrder(Elements(doc)),
              LAMBDA e : LET el == doc.elements[e]
                         IN  \/ el.style.animationName # "none"
                             \/ el.style.transitionProperty # "none"
                             \/ \E i \in DOMAIN el.classList : el.classList[i] \in AnimateClasses)

checkReducedMotionSupport(doc) == doc.reducedMotionRule

analyzeMotionSafety(doc) ==
    LET animatedElements == findAnimatedElements(doc)
        shown == SliceTo(animatedElements, 5)
    IN  IF Len(animatedElements) > 0 /\ ~checkReducedMotionSupport(doc)
        THEN <<AdvancedResult("motion-without-reduced-motion", "AA", "motion", "moderate",
                 Template("Animations should respect the prefers-reduced-motion preference.",
                          NoValues),
                 "2.3.3",
                 [i \in DOMAIN shown |->
                     ElementEntry(getElementSelector(doc.elements[shown[i]]),
                                  outerHTML(doc.elements[shown[i]]),
                                  Template("Animation does not respect prefers-reduced-motion",
                                           NoValues),
                                  Template("Add prefers-reduced-motion rules", NoValues))],
                 RInt(60), TRUE)>>
        ELSE <<>>

\* the algorithms analyze() runs, in its order
EngineAlgorithms ==
    << "analyzeContrastRatios", "analyzeHeadingStructure", "analyzeKeyboardAccessibility",
       "analyzeImageAccessibility", "analyzeFormAccessibility", "analyzeTouchTargets",
       "analyzeARIACompliance", "analyzeMotionSafety" >>

\* what the algorithm of the given name returns on the document
RunEngineAlgorithm(name, doc) ==
    CASE name = "analyzeContrastRatios"        -> analyzeContrastRatios(doc)
      [] name = "analyzeHeadingStructure"      -> analyzeHeadingStructure(doc)
      [] name = "analyzeKeyboardAccessibility" -> analyzeKeyboardAccessibility(doc)
      [] name = "analyzeImageAccessibility"    -> analyzeImageAccessibility(doc)
      [] name = "analyzeFormAccessibility"     -> analyzeFormAccessibility(doc)
      [] name = "analyzeTouchTargets"          -> analyzeTouchTargets(doc)
      [] name = "analyzeARIACompliance"        -> analyzeARIACompliance(doc)
      [] name = "analyzeMotionSafety"          -> analyzeMotionSafety(doc)

RAdd(a, b) == Rat(a.num * b.den + b.num * a.den, a.den * b.den)

RECURSIVE RSum(_)
RSum(s) == IF s = <<>> THEN RInt(0) ELSE RAdd(Head(s), RSum(Tail(s)))

\* Math.round: the nearest integer, a half rounded up
MathRound(a) == (2 * a.num + a.den) \div (2 * a.den)

\* Math.round((totalScore / maxPossibleScore) * 100) with maxPossibleScore = length * 100
calculateScore(results) ==
    IF Len(results) = 0 THEN 100
    ELSE MathRound(RDiv(RSum([i \in DOMAIN results |-> results[i].score]),
                        RInt(Len(results))))

-----------------------------------------------------------------------------
(* SemanticAccessibilityAnalyzer: the constructor and the five algorithms  *)
(* of analyze().                                                           *)

\* the document of the elements in keep (closed under descendants), with their parents
\* renumbered; an element whose parent is not kept becomes a root
Reindex(doc, keep) ==
    LET kept == InOrder(keep)
        index(e) == IF e \in keep THEN CHOOSE i \in DOMAIN kept : kept[i] = e ELSE 0
    IN  [doc EXCEPT !.elements =
            [i \in DOMAIN kept |-> [doc.elements[kept[i]] EXCEPT !.parent = index(@)]]]

\* Node.cloneNode(true): a copy of the subtree of e
cloneNode(doc, e) == Reindex(doc, {d \in Elements(doc) : Contains(doc, e, d)})

\* 'nav', 'aside', 'footer', '[role="navigation"]', '[role="complementary"]',
\* '[role="contentinfo"]'
IsExcludedFromContent(el) ==
    \/ el.tag \in {"nav", "aside", "footer"}
    \/ Role(el) \in {"navigation", "complementary", "contentinfo"}

\* the tree after el.remove() on every element of the excluded kinds
RemoveExcluded(tree) ==
    LET excluded == {r \in Elements(tree) : IsExcludedFromContent(tree.elements[r])}
    IN  Reindex(tree, {d \in Elements(tree) : \A r \in excluded : ~Contains(tree, r, d)})

\* 'main, [role="main"], .main-content, #main-content'
IsMainContent(el) ==
    \/ IsMain(el)
    \/ \E i \in DOMAIN el.classList : el.classList[i] = "main-content"
    \/ getAttribute(el, "id") = Some("main-content")

\* document.body
Body(doc) == CHOOSE e \in Elements(doc) : doc.elements[e].tag = "body"

\* a faulty extractMainContent: the subtrees are removed from the body, not from a clone
extractMainContentInPlace(doc) ==
    LET mains == {e \in Elements(doc) : IsMainContent(doc.elements[e])}
        stripped == RemoveExcluded(doc)
    IN  IF mains # {}
        THEN [text |-> textContent(doc, InOrder(mains)[1]), document |-> doc]
        ELSE [text |-> textContent(stripped, Body(stripped)), document |-> stripped]

\* extractMainContent(): the text it returns, and the document as the call leaves it
extractMainContent(doc) ==
    LET mains == {e \in Elements(doc) : IsMainContent(doc.elements[e])}
        clone == cloneNode(doc, Body(doc))
    IN  IF mains # {}
        THEN [text |-> textContent(doc, InOrder(mains)[1]), document |-> doc]
        ELSE [text |-> textContent(RemoveExcluded(clone), 1), document |-> doc]

SemanticResult(testId, category, severity, description, suggestedFixes, elements, confidence) ==
    [ testId |-> testId, category |-> category, severity |-> severity,
      description |-> description, suggestedFixes |-> suggestedFixes,
      elements |-> elements, confidence |-> confidence ]

SemanticEntry(selector, context, semanticIssue, cognitiveLoad) ==
    [selector |-> selector, context |-> context, semanticIssue |-> semanticIssue,
     cognitiveLoad |-> cognitiveLoad]

TextBlockTags == {"p", "div", "li", "td", "th"}

\* the elements of getTextBlocks(), in document order
getTextBlocks(doc) ==
    SelectSeq(InOrder(Elements(doc)),
              LAMBDA e : doc.elements[e].tag \in TextBlockTags /\ textContent(doc, e).chars > 50)

\* 206.835 - 1.015 * (words / sentences) - 84.6 * (syllables / words) for a text with
\* words; with no sentence the quotient is Infinity and the score -Infinity
fleschScore(text) ==
    Rat(206835 * text.sentences * text.words - 1015 * text.words * text.words
          - 84600 * text.syllables * text.sentences,
        1000 * text.sentences * text.words)

getReadingLevel(score) ==
    IF RLeq(RInt(90), score) THEN "Elementary School"
    ELSE IF RLeq(RInt(80), score) THEN "Middle School"
    ELSE IF RLeq(RInt(70), score) THEN "High School"
    ELSE IF RLeq(RInt(60), score) THEN "College Level"
    ELSE IF RLeq(RInt(50), score) THEN "Graduate Level"
    ELSE "Post-Graduate Level"

calculateReadabilityMetrics(text) ==
    [ readabilityScore |->
          IF text.sentences = 0 THEN RInt(0)
          ELSE MathMax(RInt(0), MathMin(RInt(100), fleschScore(text))),
      cognitiveComplexity |-> Rat(text.complexWords * 100, text.words),
      languageLevel |->
          IF text.sentences = 0 THEN "Post-Graduate Level"
          ELSE getReadingLevel(fleschScore(text)),
      issues |->
          (IF text.sentences = 0 \/ text.words > 25 * text.sentences
           THEN <<"Sentences are too long (average > 25 words)">> ELSE <<>>)
            \o (IF 5 * text.complexWords > text.words
                THEN <<"Too many complex words (> 20% have 3+ syllables)">> ELSE <<>>) ]

ReadabilityFixes ==
    << "Use shorter sentences (aim for 15-20 words)",
       "Replace complex words with simpler alternatives",
       "Break long paragraphs into smaller chunks",
       "Add headings to organize content",
       "Consider providing a simplified version" >>

analyzeContentReadability(doc) ==
    LET blocks == getTextBlocks(doc)
        analysis(i) == calculateReadabilityMetrics(textContent(doc, blocks[i]))
        complex == SelectSeq(InOrder(DOMAIN blocks),
                             LAMBDA i : RLt(analysis(i).readabilityScore, RInt(60)))
    IN  [k \in DOMAIN complex |->
            LET score == analysis(complex[k]).readabilityScore
            IN  SemanticResult("content-readability", "cognitive",
                    IF RLt(score, RInt(40)) THEN "serious" ELSE "moderate",
                    Template("Text complexity score", <<score>>),
                    ReadabilityFixes,
                    <<SemanticEntry(getElementSelector(doc.elements[blocks[complex[k]]]),
                                    Template(textContent(doc, blocks[complex[k]]).content,
                                             NoValues),
                                    Template("High cognitive complexity", NoValues),
                                    MathRound(RDiv(RSub(RInt(100), score), RInt(10))))>>,
                    85)]

\* the texts that match one of the patterns of isAmbiguousLinkText, among the link texts
\* the documents use
AmbiguousLinkTexts ==
    {"click here", "Here", "more", "Read more", "link", "learn more", "download", "42", "next"}

isAmbiguousLinkText(text) == text \in AmbiguousLinkTexts \/ Len(text) < 3

NavigationFixes ==
    << "Replace click here with descriptive text about the destination",
       "Add context to read more links",
       "Use aria-label to provide additional context while keeping visual text short",
       "Ensure link purpose is clear from the link text alone" >>

\* ariaLabel || linkText || title
EffectiveLinkText(doc, e) ==
    LET link == doc.elements[e]
    IN  IF Truthy(getAttribute(link, "aria-label")) THEN link.attributes["aria-label"]
        ELSE IF textContent(doc, e).content # "" THEN textContent(doc, e).content
        ELSE IF hasAttribute(link, "title") THEN link.attributes["title"]
        ELSE ""

analyzeNavigationSemantics(doc) ==
    LET ambiguousLinks ==
            SelectSeq(InOrder(Elements(doc)),
                      LAMBDA e : /\ doc.elements[e].tag = "a"
                                 /\ hasAttribute(doc.elements[e], "href")
                                 /\ isAmbiguousLinkText(EffectiveLinkText(doc, e)))
        shown == SliceTo(ambiguousLinks, 10)
    IN  IF Len(ambiguousLinks) > 0
        THEN <<SemanticResult("ambiguous-link-text", "semantic", "moderate",
                 Template("Links should have clear, descriptive text.", NoValues),
                 NavigationFixes,
                 [i \in DOMAIN shown |->
                     SemanticEntry(getElementSelector(doc.elements[shown[i]]),
                                   Template(textContent(doc, shown[i]).content \o " -> "
                                              \o doc.elements[shown[i]].attributes["href"],
                                            NoValues),
                                   Template("Ambiguous text: "
                                              \o textContent(doc, shown[i]).content, NoValues),
                                   6)],
                 90)>>
        ELSE <<>>

\* the number of descendants of e that satisfy the selector, given as a set of elements
CountIn(doc, e, S) == Cardinality({d \in S : d # e /\ Contains(doc, e, d)})

\* The numbers of calculateFormComplexity are IEEE 754 doubles.  A double is kept
\* as the decimal number the source writes, in tenths, and what binary rounding has
\* added to it: its value is (tenths * 2^55 + dev) / (10 * 2^55).  The doubles
\* nearest to 0.3, 0.2, 0.4 and 0.8 are 0.3 - 4/(10 * 2^55), 0.2 + 4/(10 * 2^55),
\* 0.4 + 8/(10 * 2^55) and 0.8 + 16/(10 * 2^55); 0.5 and the integers are exact.
Double(tenths, dev) == [tenths |-> tenths, dev |-> dev]

\* a > b
DoubleGreater(a, b) == a.tenths > b.tenths \/ (a.tenths = b.tenths /\ a.dev > b.dev)

\* Math.min(a, b)
DoubleMin(a, b) == IF DoubleGreater(a, b) THEN b ELSE a

\* the k for which the doubles around the value are 2^k / 2^55 apart: the value is in
\* [2^(k-3), 2^(k-2)); values from 0.125 up to 32
Binade(tenths, dev) ==
    LET From(fourTenths) == 4 * tenths > fourTenths \/ (4 * tenths = fourTenths /\ dev >= 0)
    IN  IF From(640) THEN 7
        ELSE IF From(320) THEN 6
        ELSE IF From(160) THEN 5
        ELSE IF From(80) THEN 4
        ELSE IF From(40) THEN 3
        ELSE IF From(20) THEN 2
        ELSE IF From(10) THEN 1
        ELSE 0

\* 2^(55 - k) modulo 20, for k = 0..7
PowerModulo(k) == <<8, 4, 12, 16, 8, 4, 12, 16>>[k + 1]

\* the double nearest to the value, ties to the even one: the result of one
\* floating-point operation whose exact result is the value
RoundToDouble(tenths, dev) ==
    IF tenths = 0 /\ dev = 0 THEN Double(0, 0)
    ELSE LET k == Binade(tenths, dev)
             grid == 10 * 2^k
             above2 == (2^k * ((tenths * PowerModulo(k)) % 20) + dev) % (2 * grid)
             above == above2 % grid
         IN  IF 2 * above < grid \/ (2 * above = grid /\ above2 < grid)
             THEN Double(tenths, dev - above)
             ELSE Double(tenths, dev + grid - above)

\* a + b
DoubleSum(a, b) == RoundToDouble(a.tenths + b.tenths, a.dev + b.dev)

\* n * c for an integer n
DoubleTimes(n, c) == RoundToDouble(n * c.tenths, n * c.dev)

\* Math.round(a) for a >= 0: floor(a + 0.5)
DoubleRound(a) ==
    IF (a.tenths + 5) % 10 = 0 /\ a.dev < 0 THEN (a.tenths + 5) \div 10 - 1
    ELSE (a.tenths + 5) \div 10

\* score += addend, for each addend in turn
RECURSIVE Accumulate(_, _)
Accumulate(score, addends) ==
    IF addends = <<>> THEN score
    ELSE Accumulate(DoubleSum(score, Head(addends)), Tail(addends))

calculateFormComplexity(doc, form) ==
    LET all == Elements(doc)
        fields == CountIn(doc, form, {d \in all : doc.elements[d].tag \in FormControlTags})
        requiredFields ==
            CountIn(doc, form, {d \in all : hasAttribute(doc.elements[d], "required")})
        selects == CountIn(doc, form, {d \in all : doc.elements[d].tag = "select"})
        textareas == CountIn(doc, form, {d \in all : doc.elements[d].tag = "textarea"})
        checkboxes ==
            CountIn(doc, form, {d \in all : /\ doc.elements[d].tag = "input"
                                            /\ getAttribute(doc.elements[d], "type")
                                                 = Some("checkbox")})
        radios ==
            CountIn(doc, form, {d \in all : /\ doc.elements[d].tag = "input"
                                            /\ getAttribute(doc.elements[d], "type")
                                                 = Some("radio")})
        hasFieldsets == CountIn(doc, form, {d \in all : doc.elements[d].tag = "fieldset"}) > 0
        hasHelpText ==
            CountIn(doc, form,
                    {d \in all : hasAttribute(doc.elements[d], "aria-describedby")}) > 0
        \* what score += ... adds, statement after statement
        addends ==
            << DoubleMin(DoubleTimes(fields, Double(3, -4)), Double(40, 0)),
               DoubleTimes(requiredFields, Double(2, 4)),
               DoubleTimes(selects, Double(4, 8)),
               DoubleTimes(textareas, Double(3, -4)) >>
              \o (IF checkboxes > 5 THEN <<Double(10, 0)>> ELSE <<>>)
              \o (IF radios > 5 THEN <<Double(8, 16)>> ELSE <<>>)
              \o (IF ~hasFieldsets /\ fields > 5 THEN <<Double(10, 0)>> ELSE <<>>)
              \o (IF ~hasHelpText THEN <<Double(5, 0)>> ELSE <<>>)
    IN  [score |-> DoubleMin(Accumulate(Double(0, 0), addends), Double(100, 0))]

CognitiveLoadFixes ==
    << "Break long forms into multiple steps with progress indicators",
       "Group related fields with fieldsets and legends",
       "Provide clear instructions and examples",
       "Use progressive disclosure for optional fields",
       "Add inline validation with helpful error messages" >>

analyzeCognitiveLoad(doc) ==
    LET forms == SelectSeq(InOrder(Elements(doc)),
                           LAMBDA e : /\ doc.elements[e].tag = "form"
                                      /\ DoubleGreater(calculateFormComplexity(doc, e).score, Double(70, 0)))
    IN  [i \in DOMAIN forms |->
            LET complexity == calculateFormComplexity(doc, forms[i])
            IN  SemanticResult("high-cognitive-load-form", "cognitive",
                    IF DoubleGreater(complexity.score, Double(85, 0)) THEN "serious" ELSE "moderate",
                    Template("Form complexity score", <<complexity.score>>),
                    CognitiveLoadFixes,
                    <<SemanticEntry(getElementSelector(doc.elements[forms[i]]),
                                    Template("Form with fields",
                                       <<RInt(CountIn(doc, forms[i],
                                                {d \in Elements(doc) :
                                                    doc.elements[d].tag \in FormControlTags}))>>),
                                    Template("High complexity", NoValues),
                                    DoubleRound(complexity.score))>>,
                    80)]

\* the pattern of detectJargon (1, 2 or 3) a term matches
JargonPattern(term) ==
    CASE term \in {"API", "JSON", "SEO"} -> 1
      [] term \in {"database", "server", "middleware"} -> 2
      [] term \in {"latency", "analytics"} -> 3

\* the matches of the three patterns, pattern after pattern, each in the order of the text
detectJargon(text) ==
    SelectSeq(text.jargon, LAMBDA term : JargonPattern(term) = 1)
      \o SelectSeq(text.jargon, LAMBDA term : JargonPattern(term) = 2)
      \o SelectSeq(text.jargon, LAMBDA term : JargonPattern(term) = 3)

LanguageFixes ==
    << "Provide a glossary for technical terms",
       "Use simpler language where possible",
       "Add explanatory tooltips or expandable definitions",
       "Include examples to illustrate complex concepts" >>

analyzeLanguageClarity(contentText) ==
    LET jargonTerms == detectJargon(contentText)
        shown == SliceTo(jargonTerms, 5)
    IN  IF Len(jargonTerms) > 0
        THEN <<SemanticResult("technical-jargon", "cognitive", "minor",
                 Template("Content contains technical terms that may need explanation.",
                          NoValues),
                 LanguageFixes,
                 [i \in DOMAIN shown |->
                     SemanticEntry("body",
                                   Template("context of " \o shown[i], NoValues),
                                   Template("Technical term: " \o shown[i], NoValues),
                                   4)],
                 70)>>
        ELSE <<>>

\* the issues of the heading at position i of headings; previousLevel is 0 before the first
HeadingFlowIssues(doc, headings, i) ==
    LET level == HeadingLevel(doc.elements[headings[i]].tag)
        previousLevel == IF i = 1 THEN 0 ELSE HeadingLevel(doc.elements[headings[i - 1]].tag)
        selector == getElementSelector(doc.elements[headings[i]])
    IN  (IF i = 1 /\ level # 1
         THEN <<[selector |-> selector,
                 description |-> Template("First heading is not H1", NoValues),
                 type |-> "Missing primary heading", severity |-> 7]>>
         ELSE <<>>)
          \o (IF level > previousLevel + 1
              THEN <<[selector |-> selector,
                      description |-> Template("Heading jumps",
                                               <<RInt(previousLevel), RInt(level)>>),
                      type |-> "Heading hierarchy skip", severity |-> 5]>>
              ELSE <<>>)

analyzePageFlow(doc) ==
    LET headings == InOrder({e \in Elements(doc) : doc.elements[e].tag \in HeadingTags})
    IN  Concat([i \in DOMAIN headings |-> HeadingFlowIssues(doc, headings, i)])
          \o (IF \A e \in Elements(doc) : ~IsMain(doc.elements[e])
              THEN <<[selector |-> "body",
                      description |-> Template("No main content area identified", NoValues),
                      type |-> "Missing main landmark", severity |-> 6]>>
              ELSE <<>>)

FlowFixes ==
    << "Organize content in logical, hierarchical order",
       "Use consistent navigation patterns throughout the site",
       "Provide clear page titles and section headings",
       "Add breadcrumbs for complex navigation structures" >>

analyzeUserFlowPatterns(doc) ==
    LET flowIssues == analyzePageFlow(doc)
    IN  IF Len(flowIssues) > 0
        THEN <<SemanticResult("user-flow-issues", "ux", "moderate",
                 Template("Page structure may create confusion in user navigation flow.",
                          NoValues),
                 FlowFixes,
                 [i \in DOMAIN flowIssues |->
                     SemanticEntry(flowIssues[i].selector, flowIssues[i].description,
                                   Template(flowIssues[i].type, NoValues),
                                   flowIssues[i].severity)],
                 75)>>
        ELSE <<>>

\* the algorithms analyze() runs, in its order
AnalyzerAlgorithms ==
    << "analyzeContentReadability", "analyzeNavigationSemantics", "analyzeCognitiveLoad",
       "analyzeLanguageClarity", "analyzeUserFlowPatterns" >>

\* what the algorithm of the given name returns; analyzeLanguageClarity reads the
\* text the constructor extracted, the others read the document
RunAnalyzerAlgorithm(name, doc, contentText) ==
    CASE name = "analyzeContentReadability"  -> analyzeContentReadability(doc)
      [] name = "analyzeNavigationSemantics" -> analyzeNavigationSemantics(doc)
      [] name = "analyzeCognitiveLoad"       -> analyzeCognitiveLoad(doc)
      [] name = "analyzeLanguageClarity"     -> analyzeLanguageClarity(contentText)
      [] name = "analyzeUserFlowPatterns"    -> analyzeUserFlowPatterns(doc)

\* the list a run of all algorithms in order builds, starting from the list before
RECURSIVE RunAlgorithmsFrom(_, _, _, _)
RunAlgorithmsFrom(k, names, doc, contentText) ==
    IF k > Len(names) THEN <<>>
    ELSE (IF names = EngineAlgorithms
          THEN RunEngineAlgorithm(names[k], doc)
          ELSE RunAnalyzerAlgorithm(names[k], doc, contentText))
           \o RunAlgorithmsFrom(k + 1, names, doc, contentText)

\* new AdvancedAccessibilityEngine(document).analyze()
engineAnalyze(doc) == RunAlgorithmsFrom(1, EngineAlgorithms, doc, NoText)

\* new SemanticAccessibilityAnalyzer(document).analyze()
semanticAnalyze(doc) ==
    RunAlgorithmsFrom(1, AnalyzerAlgorithms, doc, extractMainContent(doc).text)

-----------------------------------------------------------------------------
(* The two analyzers at work on a document.  An instance is a record:      *)
(* results is this.results of the engine (the local results of the         *)
(* analyzer's analyze()), next the position in the list of algorithms of   *)
(* the call of analyze() under way (0 when there is none), and returns the *)
(* lists the calls of analyze() have returned so far, as history.  The     *)
(* analyzer also holds contentText.                                        *)

\* calls of analyze() on one instance
MaxCalls == 2

\* the variables of the store and of the Scanner component
scanVars == <<isScanning, currentResults, scanHistory, error, scans, delivered, nResults>>

\* a faulty ResultsAtAnalyzeStart: analyze() does not reset this.results
ResultsKeptAtAnalyzeStart(results) == results

\* this.results = [] at the start of analyze()
ResultsAtAnalyzeStart(results) == <<>>

\* new AdvancedAccessibilityEngine(document)
EngineConstruct ==
    /\ document # Null
    /\ engine = Null
    /\ engine' = Some([results |-> <<>>, next |-> 0, returns |-> <<>>])
    /\ UNCHANGED <<scanVars, document, loaded, analyzer, exported, scanned>>

\* analyze() is called and resets this.results
EngineAnalyzeBegins ==
    /\ engine # Null
    /\ engine[1].next = 0
    /\ Len(engine[1].returns) < MaxCalls
    /\ engine' = Some([engine[1] EXCEPT !.results = ResultsAtAnalyzeStart(@), !.next = 1])
    /\ UNCHANGED <<scanVars, document, loaded, analyzer, exported, scanned>>

\* this.results.push(...) of the next algorithm
EngineRunsAlgorithm ==
    /\ engine # Null
    /\ engine[1].next \in DOMAIN EngineAlgorithms
    /\ engine' = Some([engine[1] EXCEPT
                         !.results = @ \o RunEngineAlgorithm(EngineAlgorithms[engine[1].next],
                                                            document[1]),
                         !.next = @ + 1])
    /\ UNCHANGED <<scanVars, document, loaded, analyzer, exported, scanned>>

\* return this.results
EngineAnalyzeReturns ==
    /\ engine # Null
    /\ engine[1].next = Len(EngineAlgorithms) + 1
    /\ engine' = Some([engine[1] EXCEPT !.returns = Append(@, engine[1].results), !.next = 0])
    /\ UNCHANGED <<scanVars, document, loaded, analyzer, exported, scanned>>

\* new SemanticAccessibilityAnalyzer(document): the constructor extracts the main content
AnalyzerConstruct ==
    /\ document # Null
    /\ analyzer = Null
    /\ analyzer' = Some([contentText |-> extractMainContent(document[1]).text,
                         results |-> <<>>, next |-> 0, returns |-> <<>>])
    /\ document' = Some(extractMainContent(document[1]).document)
    /\ UNCHANGED <<scanVars, loaded, engine, exported, scanned>>

\* analyze() is called: const results = []
AnalyzerAnalyzeBegins ==
    /\ analyzer # Null
    /\ analyzer[1].next = 0
    /\ Len(analyzer[1].returns) < MaxCalls
    /\ analyzer' = Some([analyzer[1] EXCEPT !.results = <<>>, !.next = 1])
    /\ UNCHANGED <<scanVars, document, loaded, engine, exported, scanned>>

\* results.push(...) of the next algorithm
AnalyzerRunsAlgorithm ==
    /\ analyzer # Null
    /\ analyzer[1].next \in DOMAIN AnalyzerAlgorithms
    /\ analyzer' = Some([analyzer[1] EXCEPT
                           !.results = @ \o RunAnalyzerAlgorithm(
                                               AnalyzerAlgorithms[analyzer[1].next],
                                               document[1], analyzer[1].contentText),
                           !.next = @ + 1])
    /\ UNCHANGED <<scanVars, document, loaded, engine, exported, scanned>>

\* return results
AnalyzerAnalyzeReturns ==
    /\ analyzer # Null
    /\ analyzer[1].next = Len(AnalyzerAlgorithms) + 1
    /\ analyzer' = Some([analyzer[1] EXCEPT !.returns = Append(@, analyzer[1].results),
                                            !.next = 0])
    /\ UNCHANGED <<scanVars, document, loaded, engine, exported, scanned>>

\* new AdvancedAccessibilityEngine(document).analyze(), as scan() runs it: in one piece
EngineAnalyzes ==
    /\ document # Null
    /\ engine = Null
    /\ engine' = Some([results |-> engineAnalyze(document[1]), next |-> 0,
                       returns |-> <<engineAnalyze(document[1])>>])
    /\ UNCHANGED <<scanVars, document, loaded, analyzer, exported, scanned>>

\* new SemanticAccessibilityAnalyzer(document).analyze(), as scan() runs it: in one piece
AnalyzerAnalyzes ==
    /\ document # Null
    /\ analyzer = Null
    /\ analyzer' = Some([contentText |-> extractMainContent(document[1]).text,
                         results |-> semanticAnalyze(document[1]), next |-> 0,
                         returns |-> <<semanticAnalyze(document[1])>>])
    /\ document' = Some(extractMainContent(document[1]).document)
    /\ UNCHANGED <<scanVars, loaded, engine, exported, scanned>>

-----------------------------------------------------------------------------
(* The documents the analyzers are run on.                                 *)

Page(elements, reducedMotionRule) ==
    [elements |-> elements, reducedMotionRule |-> reducedMotionRule]

\* headings in one generated document
MaxHeadings == 3

HeadingNames == <<"h1", "h2", "h3", "h4", "h5", "h6">>

\* a body holding headings of the given levels and nothing else
HeadingPage(levels) ==
    Page(<<El("body", 0, <<>>)>>
           \o [i \in DOMAIN levels |-> El(HeadingNames[levels[i]], 1, [text |-> Phrase("Title", 1, 1)])],
         TRUE)

HeadingPages ==
    { HeadingPage(levels) : levels \in UNION { [1..n -> 1..6] : n \in 0..MaxHeadings } }

\* luminances around the ratios 3, 4.5, 7 and 21 against 50 and 0
LuminanceValues == {0, 50, 249, 250, 399, 400, 650, 1000}

\* a body holding one paragraph of the given text length and computed style
ContrastPage(color, background, bodyBackground, fontSize, fontWeight, content) ==
    Page(<< El("body", 0, [style |-> [DefaultStyle EXCEPT !.backgroundColor = bodyBackground]]),
            El("p", 1, [text |-> Phrase(content, 1, 1),
                        style |-> [DefaultStyle EXCEPT !.color = color,
                                                       !.backgroundColor = background,
                                                       !.fontSize = fontSize,
                                                       !.fontWeight = fontWeight]]) >>,
         TRUE)

ContrastPages ==
    { ContrastPage(color, background, bodyBackground, fontSize, fontWeight, content) :
        color \in LuminanceValues,
        background \in {Null} \cup {Some(l) : l \in LuminanceValues},
        bodyBackground \in {Null, Some(50)},
        fontSize \in {Null, Some(13), Some(14), Some(17), Some(18)},
        fontWeight \in {Null, Some(400), Some(699), Some(700)},
        content \in {"ab", "abc"} }

GeneratedPages == HeadingPages \cup ContrastPages

\* Flesch score 97
SimpleText ==
    Text("We are open every day. Come and see us at the shop in town.", 14, 2, 17, 1, <<>>)

\* Flesch score 57.18
ModerateText ==
    Text("Our server keeps a copy of every order you place. You can review the history "
           \o "and cancel an order at any time before delivery.",
         24, 2, 39, 3, <<"server">>)

\* Flesch score below zero
ComplexText ==
    Text("Asynchronous API latency considerations necessitate comprehensive database "
           \o "denormalisation strategies throughout organisational infrastructure",
         12, 1, 45, 10, <<"API", "latency", "database">>)

\* one h1 to h3 skip, one unlabeled input and a paragraph of large bold text at 3:1
ExamplePage(fontWeight, inputAttributes) ==
    Page(<< El("body", 0, [style |-> [DefaultStyle EXCEPT !.backgroundColor = Some(White)]]),
            El("main", 1, <<>>),
            El("h1", 2, [text |-> Phrase("Welcome", 1, 2)]),
            El("h3", 2, [text |-> Phrase("Details", 1, 2)]),
            El("p", 2, [text |-> Phrase("Large bold note", 3, 3),
                        style |-> [DefaultStyle EXCEPT !.color = 250,
                                                       !.backgroundColor = Some(50),
                                                       !.fontSize = Some(18),
                                                       !.fontWeight = fontWeight]]),
            El("input", 2, [attributes |-> inputAttributes]) >>,
         TRUE)

ExamplePages ==
    { ExamplePage(fontWeight, inputAttributes) :
        fontWeight \in {Some(700), Some(900)},
        inputAttributes \in {<<>>, [type |-> "text"], [type |-> "email", name |-> "mail"]} }

\* a document on which neither analyzer finds anything
CleanPage ==
    Page(<< El("body", 0, <<>>),
            El("main", 1, <<>>),
            El("h1", 2, [text |-> Phrase("Opening hours", 2, 3)]),
            El("h2", 2, [text |-> Phrase("Shop", 1, 1)]),
            El("p", 2, [text |-> SimpleText]),
            El("a", 2, [attributes |-> [href |-> "/contact"], text |-> Phrase("Contact us", 2, 3)]),
            El("label", 2, [attributes |-> [for |-> "q"], text |-> Phrase("Search", 1, 1)]),
            El("input", 2, [attributes |-> [id |-> "q", type |-> "search"]]),
            El("button", 2, [text |-> Phrase("Send", 1, 1)]),
            El("img", 2, [attributes |-> [alt |-> "Quarterly sales chart", src |-> "hero.jpg"]]) >>,
         TRUE)

\* no main and no heading; navigation, aside and footer hold findings of both analyzers
NavPage ==
    Page(<< El("body", 0, <<>>),
            El("nav", 1, <<>>),
            El("a", 2, [attributes |-> [href |-> "/more"], text |-> Phrase("click here", 2, 2)]),
            El("div", 2, [attributes |-> [role |-> "button", onclick |-> "toggle()"],
                          text |-> Phrase("Menu", 1, 2), rect |-> [width |-> 30, height |-> 30]]),
            El("div", 1, [classList |-> <<"content">>, text |-> ComplexText]),
            El("aside", 1, <<>>),
            El("p", 6, [text |-> ModerateText]),
            El("footer", 1, <<>>),
            El("img", 8, <<>>),
            El("a", 8, [attributes |-> [href |-> "/home"], text |-> Phrase("Home page", 2, 2)]) >>,
         TRUE)

\* a long form, a heading that is not h1, a small animated button
FormPage ==
    Page(<< El("body", 0, <<>>),
            El("div", 1, [attributes |-> [role |-> "main"]]),
            El("h2", 2, [text |-> Phrase("Register", 1, 3)]),
            El("form", 2, [attributes |-> [id |-> "signup"]]),
            El("input", 4, [attributes |-> ("aria-label" :> "Name") @@ [required |-> ""]]) >>
           \o [i \in 1..9 |-> El("input", 4, [attributes |-> [required |-> ""]])]
           \o [i \in 1..2 |-> El("input", 4, [attributes |-> [type |-> "text"]])]
           \o [i \in 1..2 |-> El("select", 4, <<>>)]
           \o << El("textarea", 4, <<>>),
                 El("button", 4, [classList |-> <<"btn", "animate-spin">>, text |-> Phrase("OK", 1, 1),
                                  rect |-> [width |-> 40, height |-> 20]]) >>,
         FALSE)

\* two h1, a skip from h2 to h4, two main landmarks and images of every kind
HeadingsPage ==
    Page(<< El("body", 0, <<>>),
            El("main", 1, <<>>),
            El("h1", 2, [text |-> Phrase("News", 1, 1)]),
            El("h1", 2, [text |-> Phrase("Sport", 1, 1)]),
            El("h2", 2, [text |-> Phrase("Football", 1, 2)]),
            El("h4", 2, [text |-> Phrase("Scores", 1, 1)]),
            El("div", 1, [attributes |-> [role |-> "main"]]),
            El("img", 7, [attributes |-> [alt |-> "photo", src |-> "hero.jpg"]]),
            El("img", 7, [attributes |-> [alt |-> "", src |-> "hero.jpg"]]),
            El("svg", 7, [attributes |-> [role |-> "presentation"]]),
            El("img", 7, [attributes |-> [alt |-> "Hero banner", src |-> "hero.jpg"]]),
            El("a", 7, [attributes |-> [href |-> "/gallery"]]),
            El("img", 12, [attributes |-> [alt |-> "ok", src |-> "assets/team.png"]]) >>,
         TRUE)

DesignedPages == ExamplePages \cup {CleanPage, NavPage, FormPage, HeadingsPage}

-----------------------------------------------------------------------------
(* SpecPasses: the two analyzers on one of the designed documents, the     *)
(* steps of their analyze() calls in any interleaving.                     *)

\* a document is loaded and nothing else has happened
InitOn(pages) ==
    /\ isScanning = FALSE
    /\ currentResults = Null
    /\ scanHistory = <<>>
    /\ error = Null
    /\ scans = <<>>
    /\ delivered = <<>>
    /\ nResults = 0
    /\ \E page \in pages : document = Some(page) /\ loaded = Some(page)
    /\ engine = Null
    /\ analyzer = Null
    /\ exported = Null
    /\ scanned = Null

InitPasses == InitOn(DesignedPages)

NextPasses ==
    \/ EngineConstruct
    \/ EngineAnalyzeBegins
    \/ EngineRunsAlgorithm
    \/ EngineAnalyzeReturns
    \/ AnalyzerConstruct
    \/ AnalyzerAnalyzeBegins
    \/ AnalyzerRunsAlgorithm
    \/ AnalyzerAnalyzeReturns

SpecPasses == InitPasses /\ [][NextPasses]_vars

-----------------------------------------------------------------------------
(* SpecPages: the engine's analyze() on each of the generated documents.   *)

InitPages == InitOn(GeneratedPages)

NextPages == EngineAnalyzes

SpecPages == InitPages /\ [][NextPages]_vars

-----------------------------------------------------------------------------
(* Properties of the two analyzers, under SpecPasses.                      *)

\* the findings of the given test in a list
WithTestId(results, testId) == SelectSeq(results, LAMBDA r : r.testId = testId)

\* the selectors of the elements a finding carries
Selectors(result) == [i \in DOMAIN result.elements |-> result.elements[i].selector]

\* C11: the structural pass and the semantic pass are independent of their order.
\* In every interleaving of the steps of the two analyzers (either constructed
\* first, either run first, one run inside the other), the list the first call of
\* the engine's analyze() returns is the list the engine returns when run alone
\* on the document as loaded, the list the first call of the semantic analyzer's
\* analyze() returns is the list it returns when run alone on the document as
\* loaded, and the document both read is still the document as loaded.
C11_PassesAreOrderIndependent ==
    /\ document = loaded
    /\ (engine # Null /\ engine[1].returns # <<>>)
          => engine[1].returns[1] = engineAnalyze(loaded[1])
    /\ (analyzer # Null /\ analyzer[1].returns # <<>>)
          => analyzer[1].returns[1] = semanticAnalyze(loaded[1])

\* both passes have returned on a document without main landmark, whose navigation
\* holds an element the engine reports and which the semantic analyzer's
\* constructor strips from its copy; the semantic analyzer was constructed while
\* the engine had not yet returned or with the engine already done (both orders
\* lead here)
C11_Witness ==
    /\ loaded = Some(NavPage)
    /\ engine # Null /\ Len(engine[1].returns) = 1
    /\ analyzer # Null /\ Len(analyzer[1].returns) = 1
    /\ \E i \in DOMAIN engine[1].returns[1] :
          /\ engine[1].returns[1][i].testId = "missing-keyboard-support"
          /\ Selectors(engine[1].returns[1][i]) = <<"div">>
    /\ WithTestId(analyzer[1].returns[1], "technical-jargon") # <<>>
    /\ WithTestId(analyzer[1].returns[1], "ambiguous-link-text") # <<>>

\* C12: analyze() is idempotent on one instance.  Every call of analyze() on the
\* same engine, and on the same semantic analyzer, returns the list the first
\* call returned (nothing accumulates from call to call), and the score
\* calculateScore() computes from it is the same.
C12_AnalyzeIsIdempotent ==
    /\ engine # Null =>
          \A i \in DOMAIN engine[1].returns :
              /\ engine[1].returns[i] = engine[1].returns[1]
              /\ calculateScore(engine[1].returns[i]) = calculateScore(engine[1].returns[1])
    /\ analyzer # Null =>
          \A i \in DOMAIN analyzer[1].returns :
              analyzer[1].returns[i] = analyzer[1].returns[1]

\* both analyzers have returned twice, each time a list with findings
C12_Witness ==
    /\ engine # Null /\ Len(engine[1].returns) = 2
    /\ analyzer # Null /\ Len(analyzer[1].returns) = 2
    /\ Len(engine[1].returns[2]) >= 2
    /\ Len(analyzer[1].returns[2]) >= 2
    /\ calculateScore(engine[1].returns[2]) < 100

-----------------------------------------------------------------------------
(* Properties of the engine's algorithms, under SpecPages.                 *)

\* the engine has analyzed the document
EngineDone == engine # Null /\ engine[1].returns # <<>>

\* the findings of the engine's analyze()
EngineFindings == engine[1].returns[1]

\* the levels of the headings of the document, in document order
LevelsOf(doc) ==
    LET tags == [e \in DOMAIN doc.elements |-> doc.elements[e].tag]
        headings == SelectSeq(tags, LAMBDA tag : \E l \in 1..6 : tag = HeadingNames[l])
    IN  [i \in DOMAIN headings |-> CHOOSE l \in 1..6 : headings[i] = HeadingNames[l]]

\* the pairs <<previous level, level>> at the positions where a level is skipped
ExpectedSkips(levels) ==
    LET at == SelectSeq([i \in DOMAIN levels |-> i],
                        LAMBDA i : i >= 2 /\ levels[i] > levels[i - 1] + 1)
    IN  [k \in DOMAIN at |-> <<RInt(levels[at[k] - 1]), RInt(levels[at[k]])>>]

\* C13: the heading pass.  The findings of analyze() hold exactly one critical
\* 'missing-h1' when the document has no heading of level 1 (and none otherwise),
\* exactly one serious 'multiple-h1' when it has more than one (and none
\* otherwise), and one moderate 'heading-level-skip' for each position i >= 1
\* with level[i] > level[i-1] + 1, in order, naming the two levels (and no other).
\* Headings H1, H4 give exactly one skip; a document without headings gives the
\* missing-H1 finding and no skip.
C13_HeadingPass ==
    EngineDone =>
        LET levels == LevelsOf(document[1])
            h1 == Cardinality({i \in DOMAIN levels : levels[i] = 1})
            missing == WithTestId(EngineFindings, "missing-h1")
            multiple == WithTestId(EngineFindings, "multiple-h1")
            skips == WithTestId(EngineFindings, "heading-level-skip")
        IN  /\ Len(missing) = (IF h1 = 0 THEN 1 ELSE 0)
            /\ \A i \in DOMAIN missing : missing[i].severity = "critical"
            /\ Len(multiple) = (IF h1 > 1 THEN 1 ELSE 0)
            /\ \A i \in DOMAIN multiple : multiple[i].severity = "serious"
            /\ [i \in DOMAIN skips |-> skips[i].description.values] = ExpectedSkips(levels)
            /\ \A i \in DOMAIN skips : skips[i].severity = "moderate"
            /\ levels = <<1, 4>> => Len(skips) = 1 /\ Len(missing) = 0 /\ Len(multiple) = 0
            /\ levels = <<>> => Len(skips) = 0 /\ Len(missing) = 1

\* the engine has analyzed a document whose headings are H1, H4: it reports the one
\* skip, from 1 to 4, and nothing about H1
C13_Witness ==
    /\ EngineDone
    /\ LevelsOf(document[1]) = <<1, 4>>
    /\ Len(WithTestId(EngineFindings, "heading-level-skip")) = 1
    /\ WithTestId(EngineFindings, "heading-level-skip")[1].description.values = <<RInt(1), RInt(4)>>
    /\ WithTestId(EngineFindings, "missing-h1") = <<>>

\* the elements of the document with three characters of text or more, in order
TextElements(doc) ==
    SelectSeq([e \in DOMAIN doc.elements |-> e], LAMBDA e : textContent(doc, e).chars >= 3)

\* font-size >= 18px, or font-size >= 14px with weight >= 700 (400 when none is set)
LargeText(style) ==
    LET size == IF style.fontSize = Null THEN 0 ELSE style.fontSize[1]
        weight == IF style.fontWeight = Null THEN 400 ELSE style.fontWeight[1]
    IN  size >= 18 \/ (size >= 14 /\ weight >= 700)

\* the contrast ratio of element e is below the AA threshold of its text size:
\* (lighter + 0.05) / (darker + 0.05) < 3 or 4.5, in thousandths and tenths
BelowAAThreshold(doc, e) ==
    LET fg == doc.elements[e].style.color
        bg == getEffectiveBackgroundColor(doc, e)
        lighter == IF fg >= bg THEN fg ELSE bg
        darker == IF fg >= bg THEN bg ELSE fg
        tenths == IF LargeText(doc.elements[e].style) THEN 30 ELSE 45
    IN  10 * (lighter + 50) < tenths * (darker + 50)

\* the contrast findings of the engine's analyze()
ContrastFindings == WithTestId(EngineFindings, "advanced-contrast-ratio")

\* C14: a text element is flagged by the contrast pass exactly when its contrast
\* ratio is below the AA threshold for its text size: below 3 for large text
\* (font-size >= 18px, or >= 14px with weight >= 700) and below 4.5 otherwise.
\* The contrast findings are, in document order, one finding with one element for
\* each text element below its threshold, and no other; a ratio equal to the
\* threshold is not flagged.
C14_ContrastThreshold ==
    EngineDone =>
        LET doc == document[1]
            failing == SelectSeq(TextElements(doc), LAMBDA e : BelowAAThreshold(doc, e))
        IN  /\ Len(ContrastFindings) = Len(failing)
            /\ \A i \in DOMAIN ContrastFindings :
                  /\ Len(ContrastFindings[i].elements) = 1
                  /\ ContrastFindings[i].elements[1].selector
                        = getElementSelector(doc.elements[failing[i]])
                  /\ ContrastFindings[i].elements[1].computedStyles.color
                        = doc.elements[failing[i]].style.color
                  /\ ContrastFindings[i].elements[1].computedStyles.backgroundColor
                        = getEffectiveBackgroundColor(doc, failing[i])

\* the engine has analyzed a paragraph of bold 18px text at exactly 3:1 (luminance
\* 0.25 on 0.05) and reports no contrast finding
C14_Witness ==
    /\ EngineDone
    /\ \E bodyBackground \in {Null, Some(50)} :
          document = Some(ContrastPage(250, Some(50), bodyBackground, Some(18), Some(700), "abc"))
    /\ TextElements(document[1]) # <<>>
    /\ ContrastFindings = <<>>

\* the document with foreground and background of element e exchanged
Swapped(doc, e) ==
    [doc EXCEPT !.elements[e].style.color = getEffectiveBackgroundColor(doc, e),
                !.elements[e].style.backgroundColor = Some(doc.elements[e].style.color)]

\* C15: the contrast ratio (max(L1,L2)+0.05)/(min(L1,L2)+0.05).  For every element
\* of an analyzed document the ratio calculateContrastRatio computes from the
\* luminances of its foreground and background is at least 1, is the same with
\* foreground and background exchanged, and is 21 for white against black; the
\* ratio a contrast finding reports is that ratio.
C15_ContrastRatio ==
    EngineDone =>
        LET doc == document[1]
        IN  /\ \A e \in Elements(doc) :
                  LET analysis == calculateContrastRatio(doc, e)
                  IN  /\ RLeq(RInt(1), analysis.ratio)
                      /\ calculateContrastRatio(Swapped(doc, e), e).ratio = analysis.ratio
                      /\ contrastRatio(analysis.background, analysis.foreground) = analysis.ratio
                      /\ {analysis.foreground, analysis.background} = {White, Black}
                            => analysis.ratio = RInt(21)
            /\ \A i \in DOMAIN ContrastFindings :
                  /\ RLeq(RInt(1), ContrastFindings[i].description.values[1])
                  /\ ContrastFindings[i].description.values[1]
                        = contrastRatio(ContrastFindings[i].elements[1].computedStyles.backgroundColor,
                                        ContrastFindings[i].elements[1].computedStyles.color)

\* the engine has analyzed a page with a paragraph of white text on black, whose
\* ratio is 21, and a body of black text on a dark background, which it reports
C15_Witness ==
    /\ EngineDone
    /\ \E e \in Elements(document[1]) :
          /\ document[1].elements[e].style.color = White
          /\ getEffectiveBackgroundColor(document[1], e) = Black
          /\ calculateContrastRatio(document[1], e).ratio = RInt(21)
    /\ \E i \in DOMAIN ContrastFindings :
          /\ ContrastFindings[i].elements[1].computedStyles.color = Black
          /\ ContrastFindings[i].elements[1].computedStyles.backgroundColor = 50
          /\ ContrastFindings[i].description.values[1] = RInt(2)

-----------------------------------------------------------------------------
(* EnhancedAccessibilityScanner: exportReport.                             *)
(* A string of a report is a sequence of pieces: a piece is one of the     *)
(* characters that matter to CSV (double quote, comma, line feed) or a run *)
(* of other characters.                                                    *)

Quote == "\""

Comma == ","

LineFeed == "\n"

\* a string without double quote, comma or line feed
Plain(s) == <<s>>

\* parts.join(separator)
RECURSIVE JoinWith(_, _)
JoinWith(parts, separator) ==
    IF parts = <<>> THEN <<>>
    ELSE IF Len(parts) = 1 THEN parts[1]
    ELSE parts[1] \o separator \o JoinWith(Tail(parts), separator)

CsvHeaders ==
    << Plain("Type"), Plain("Severity"), Plain("Rule ID"), Plain("Description"),
       Plain("Element"), Plain("WCAG Criterion"), Plain("Fix Suggestion") >>

\* tag.startsWith('wcag'), over the tags axe gives its rules
StartsWithWcag(tag) == tag \in {"wcag2a", "wcag2aa", "wcag2aaa", "wcag111", "wcag143", "wcag412"}

\* the rows pushed for one baseline violation: one per node
ViolationRows(violation) ==
    [ n \in DOMAIN violation.nodes |->
        << Plain("Axe Core Violation"),
           IF violation.impact = Null THEN Plain("unknown") ELSE violation.impact[1],
           violation.id,
           violation.description,
           JoinWith(violation.nodes[n].target, <<Comma, " ">>),
           JoinWith([t \in DOMAIN SelectSeq(violation.tags, StartsWithWcag) |->
                        Plain(SelectSeq(violation.tags, StartsWithWcag)[t])],
                    <<Comma, " ">>),
           violation.help >> ]

\* the rows pushed for one structural finding: one per element
AdvancedRows(violation) ==
    [ e \in DOMAIN violation.elements |->
        << Plain("Advanced Analysis"), violation.severity, violation.testId,
           violation.description, violation.elements[e].selector,
           violation.wcagCriterion, violation.elements[e].suggestion >> ]

\* the rows pushed for one semantic finding: one per element
SemanticRows(issue) ==
    [ e \in DOMAIN issue.elements |->
        << Plain("Semantic Analysis"), issue.severity, issue.testId, issue.description,
           issue.elements[e].selector, Plain("Semantic/Cognitive"),
           JoinWith(issue.suggestedFixes, <<"; ">>) >> ]

\* rows of generateCSVReport: the headers, then the rows of the three lists
CsvRows(result) ==
    <<CsvHeaders>>
      \o Concat([v \in DOMAIN result.violations |-> ViolationRows(result.violations[v])])
      \o Concat([v \in DOMAIN result.advancedViolations |->
                    AdvancedRows(result.advancedViolations[v])])
      \o Concat([i \in DOMAIN result.semanticIssues |-> SemanticRows(result.semanticIssues[i])])

\* a faulty CsvCell: the quotes inside the cell are not doubled
CsvCellUnescaped(cell) == <<Quote>> \o cell \o <<Quote>>

\* `"${cell.replace(/"/g, '""')}"`
CsvCell(cell) ==
    <<Quote>>
      \o Concat([i \in DOMAIN cell |-> IF cell[i] = Quote THEN <<Quote, Quote>> ELSE <<cell[i]>>])
      \o <<Quote>>

generateCSVReport(result) ==
    LET rows == CsvRows(result)
    IN  JoinWith([r \in DOMAIN rows |->
                     JoinWith([c \in DOMAIN rows[r] |-> CsvCell(rows[r][c])], <<Comma>>)],
                 <<LineFeed>>)

ExportFormats == {"json", "csv", "pdf"}

\* exportReport(result, format): a string, or a Blob for 'pdf'
exportReport(result, format) ==
    CASE format = "json" -> [format |-> "json", stringify |-> result]
      [] format = "csv"  -> [format |-> "csv", text |-> generateCSVReport(result)]
      [] format = "pdf"  -> [format |-> "pdf", blob |-> "PDF report generation coming soon"]

\* exportReport is called on the current result
ExportReport ==
    /\ currentResults # Null
    /\ \E format \in ExportFormats :
          exported' = Some(exportReport(currentResults[1], format))
    /\ UNCHANGED <<scanVars, document, loaded, engine, analyzer, scanned>>

-----------------------------------------------------------------------------
(* SpecCsv: reports whose strings hold quotes, commas and line feeds, and  *)
(* their export.                                                           *)

\* pieces of the strings of a report
MaxCellLen == 2

CsvAlphabet == {"a", Quote, Comma, LineFeed}

CellTexts == UNION { [1..n -> CsvAlphabet] : n \in 0..MaxCellLen }

\* a report with nothing to list
EmptyReport ==
    [violations |-> <<>>, advancedViolations |-> <<>>, semanticIssues |-> <<>>]

\* a report with one finding of each kind, its free strings being a and b
SmallReport(a, b) ==
    [ violations |->
        << [ id |-> Plain("label"), impact |-> Null, description |-> a, help |-> b,
             tags |-> <<"cat.forms", "wcag2a", "wcag412">>,
             nodes |-> << [target |-> <<a>>], [target |-> <<b, a>>] >> ] >>,
      advancedViolations |->
        << [ testId |-> Plain("form-labels-missing"), severity |-> Plain("serious"),
             description |-> b, wcagCriterion |-> Plain("1.3.1"),
             elements |-> << [selector |-> a, suggestion |-> b] >> ] >>,
      semanticIssues |->
        << [ testId |-> Plain("ambiguous-link-text"), severity |-> Plain("moderate"),
             description |-> a, suggestedFixes |-> <<a, b>>,
             elements |-> << [selector |-> b] >> ] >> ]

\* a report with findings of several elements and one of none
LargeReport(a, b) ==
    [ violations |->
        << [ id |-> Plain("region"), impact |-> Some(Plain("moderate")), description |-> b,
             help |-> a, tags |-> <<"best-practice">>,
             nodes |-> << [target |-> <<a, b>>] >> ] >>,
      advancedViolations |->
        << [ testId |-> Plain("missing-h1"), severity |-> Plain("critical"),
             description |-> a, wcagCriterion |-> Plain("1.3.1"), elements |-> <<>> ],
           [ testId |-> Plain("touch-target-size"), severity |-> Plain("moderate"),
             description |-> a, wcagCriterion |-> Plain("2.5.5"),
             elements |-> << [selector |-> b, suggestion |-> a],
                             [selector |-> a, suggestion |-> a] >> ] >>,
      semanticIssues |->
        << [ testId |-> Plain("technical-jargon"), severity |-> Plain("minor"),
             description |-> b, suggestedFixes |-> <<b>>,
             elements |-> << [selector |-> a], [selector |-> b] >> ] >> ]

CsvReports ==
    {EmptyReport}
      \cup { SmallReport(a, b) : a \in CellTexts, b \in CellTexts }
      \cup { LargeReport(a, b) : a \in CellTexts, b \in CellTexts }

InitCsv ==
    /\ isScanning = FALSE
    /\ currentResults \in { Some(report) : report \in CsvReports }
    /\ scanHistory = <<>>
    /\ error = Null
    /\ scans = <<>>
    /\ delivered = <<>>
    /\ nResults = 0
    /\ NoAnalysis

NextCsv == ExportReport

SpecCsv == InitCsv /\ [][NextCsv]_vars

\* Reading a CSV text by the standard quoting rules: a field in double quotes runs
\* to its closing quote, two double quotes inside it stand for one, fields are
\* separated by commas and records by line feeds.  Each reader starts at position
\* at and yields what it read and the position where it stopped.

\* the rest of a quoted field, after its opening quote
RECURSIVE ReadQuoted(_, _, _)
ReadQuoted(text, at, value) ==
    IF at > Len(text) THEN [value |-> value, next |-> at]
    ELSE IF text[at] = Quote /\ at < Len(text) /\ text[at + 1] = Quote
    THEN ReadQuoted(text, at + 2, Append(value, Quote))
    ELSE IF text[at] = Quote THEN [value |-> value, next |-> at + 1]
    ELSE ReadQuoted(text, at + 1, Append(value, text[at]))

\* a field, up to the comma or line feed that ends it
RECURSIVE ReadCell(_, _, _)
ReadCell(text, at, cell) ==
    IF at > Len(text) \/ text[at] \in {Comma, LineFeed} THEN [cell |-> cell, next |-> at]
    ELSE IF text[at] = Quote
    THEN LET inner == ReadQuoted(text, at + 1, cell.value)
         IN  ReadCell(text, inner.next, [quoted |-> TRUE, value |-> inner.value])
    ELSE ReadCell(text, at + 1, [cell EXCEPT !.value = Append(@, text[at])])

\* a record, up to the line feed that ends it
RECURSIVE ReadRow(_, _, _)
ReadRow(text, at, row) ==
    LET field == ReadCell(text, at, [quoted |-> FALSE, value |-> <<>>])
    IN  IF field.next <= Len(text) /\ text[field.next] = Comma
        THEN ReadRow(text, field.next + 1, Append(row, field.cell))
        ELSE [row |-> Append(row, field.cell), next |-> field.next]

RECURSIVE ReadRows(_, _, _)
ReadRows(text, at, rows) ==
    LET record == ReadRow(text, at, <<>>)
    IN  IF record.next <= Len(text)
        THEN ReadRows(text, record.next + 1, Append(rows, record.row))
        ELSE Append(rows, record.row)

ParseCsv(text) == ReadRows(text, 1, <<>>)

\* the number of double quotes in a text
Quotes(text) == Cardinality({i \in DOMAIN text : text[i] = Quote})

\* a report has been exported as CSV
ExportedCsv == exported # Null /\ exported[1].format = "csv"

\* C16: exportReport(result, 'csv') round-trips cell content.  Read by the standard
\* CSV quoting rules, the exported text has the rows generateCSVReport built, in
\* order: every row has exactly 7 cells, every cell is quoted, and the value of
\* every cell is the original value, double quotes, commas and line feeds
\* included; the text holds two double quotes for each one of a cell, and two
\* around each cell.
C16_CsvRoundTrip ==
    ExportedCsv =>
        LET rows == CsvRows(currentResults[1])
            parsed == ParseCsv(exported[1].text)
        IN  /\ Len(parsed) = Len(rows)
            /\ \A r \in DOMAIN parsed :
                  /\ Len(parsed[r]) = 7
                  /\ \A c \in DOMAIN parsed[r] :
                        /\ parsed[r][c].quoted
                        /\ parsed[r][c].value = rows[r][c]
            /\ Quotes(exported[1].text)
                  = SumSeq([r \in DOMAIN rows |->
                              SumSeq([c \in DOMAIN rows[r] |-> 2 + 2 * Quotes(rows[r][c])])])

\* a report of five rows has been exported whose cells hold a double quote followed
\* by a comma, and a line feed followed by a double quote
C16_Witness ==
    /\ ExportedCsv
    /\ currentResults = Some(SmallReport(<<Quote, Comma>>, <<LineFeed, Quote>>))
    /\ Len(ParseCsv(exported[1].text)) = 5
    /\ ParseCsv(exported[1].text)[2][4].value = <<Quote, Comma>>
    /\ ParseCsv(exported[1].text)[3][5].value = <<LineFeed, Quote, Comma, " ", Quote, Comma>>

-----------------------------------------------------------------------------
(* EnhancedAccessibilityScanner: scan() on a document, the baseline engine *)
(* configured by getAxeConfiguration.                                      *)

\* the rules getAxeConfiguration names
ConfiguredRules ==
    { "color-contrast", "color-contrast-enhanced", "focus-order-semantics", "tabindex",
      "aria-allowed-attr", "aria-required-attr", "aria-roles", "aria-valid-attr-value",
      "aria-valid-attr", "label", "form-field-multiple-labels", "image-alt",
      "image-redundant-alt", "page-has-heading-one", "heading-order", "landmark-one-main",
      "region", "html-has-lang", "html-lang-valid", "valid-lang" }

getAxeConfiguration(options) ==
    [ rules |-> [id \in ConfiguredRules |->
                   [enabled |-> IF id = "color-contrast-enhanced"
                                THEN options.wcagLevel = "AAA" ELSE TRUE]],
      tags |-> (CASE options.wcagLevel = "A"   -> <<"wcag2a">>
                  [] options.wcagLevel = "AA"  -> <<"wcag2a", "wcag2aa">>
                  [] options.wcagLevel = "AAA" -> <<"wcag2a", "wcag2aa", "wcag2aaa">>)
                 \o (IF "tags" \in DOMAIN options THEN options.tags ELSE <<>>),
      reporter |-> "v2" ]

\* axe.run(document, config) resolving: of the results the rules of axe give on the
\* document, those of the rules the configuration has not disabled; whether axe
\* also keeps to the rules carrying one of config.tags is its own matter (byTags)
axeRun(results, config, byTags) ==
    LET runs(rule) ==
            /\ rule.id \in DOMAIN config.rules => config.rules[rule.id].enabled
            /\ byTags => \E t \in DOMAIN config.tags : config.tags[t] \in rule.tags
        kept(list) == SelectSeq(list, runs)
    IN  [ violations   |-> kept(results.violations),
          passes       |-> kept(results.passes),
          incomplete   |-> kept(results.incomplete),
          inapplicable |-> kept(results.inapplicable) ]

\* what scan() has to work on: the baseline results and the findings of the two
\* analyzers on the page
Scanned(page, axeResults) ==
    [ Document("page.html", axeResults, engineAnalyze(page), semanticAnalyze(page))
        EXCEPT !.elements = Len(page.elements) ]

\* what the rules of axe give on a page: passes of the three levels, and violations
PageBaselines ==
    { AxeResults(<<>>, <<>>, <<>>),
      AxeResults(<<ViolationKinds[3]>>, Rep(9, PassAA), <<>>),
      AxeResults(<<ViolationKinds[2]>>, <<PassA>>, <<>>),
      AxeResults(<<ViolationKinds[2]>>, <<PassA, PassAA, PassAAA>>, <<IncompleteRule>>),
      AxeResults(<<ViolationKinds[4], ViolationKinds[5]>>, Rep(6, PassA) \o Rep(9, PassAA), <<>>),
      AxeResults(<<ViolationKinds[5]>>, <<>>, <<>>) }

PageOptions ==
    [includeAdvanced : BOOLEAN, includeSemantic : BOOLEAN, wcagLevel : {"A", "AA", "AAA"}]

\* new EnhancedAccessibilityScanner(document, options).scan(), axe.run resolving
ScanPage ==
    /\ document # Null
    /\ scanned = Null
    /\ \E given \in PageOptions, results \in PageBaselines, byTags \in BOOLEAN :
          LET options == ScannerOptions(given)
              page == document[1]
              axeResults == axeRun(results, getAxeConfiguration(options), byTags)
          IN  /\ scanned' = Some([options |-> options, threw |-> Null,
                                  returned |-> Some(ScanBody(Scanned(page, axeResults),
                                                            options, "now"))])
              /\ engine' = IF options.includeAdvanced
                           THEN Some([results |-> engineAnalyze(page), next |-> 0,
                                      returns |-> <<engineAnalyze(page)>>])
                           ELSE Null
              /\ analyzer' = IF options.includeSemantic
                             THEN Some([contentText |-> extractMainContent(page).text,
                                        results |-> semanticAnalyze(page), next |-> 0,
                                        returns |-> <<semanticAnalyze(page)>>])
                             ELSE Null
              /\ document' = IF options.includeSemantic
                             THEN Some(extractMainContent(page).document) ELSE document
    /\ UNCHANGED <<scanVars, loaded, exported>>

\* new EnhancedAccessibilityScanner(document, options).scan(), axe.run rejecting
ScanPageFails ==
    /\ document # Null
    /\ scanned = Null
    /\ \E given \in PageOptions, cause \in AxeFailures :
          scanned' = Some([options |-> ScannerOptions(given),
                           threw |-> Some(ScanFailureMessage(cause)), returned |-> Null])
    /\ UNCHANGED <<scanVars, document, loaded, engine, analyzer, exported>>

-----------------------------------------------------------------------------
(* SpecAudit: one scan of one of the designed documents.                   *)

InitAudit == InitOn(DesignedPages)

NextAudit == ScanPage \/ ScanPageFails

SpecAudit == InitAudit /\ [][NextAudit]_vars

-----------------------------------------------------------------------------
(* Properties of a scan of a document, under SpecAudit.                    *)

\* scan() has returned a report
ScanReturned == scanned # Null /\ scanned[1].returned # Null

\* the report scan() returned
Report == scanned[1].returned[1]

\* the findings of the given category in a list
WithCategory(results, category) == SelectSeq(results, LAMBDA r : r.category = category)

\* the example document has been scanned with the structural pass enabled
ExampleScanned ==
    /\ ScanReturned
    /\ loaded[1] \in ExamplePages
    /\ scanned[1].options.includeAdvanced

\* no contrast finding, exactly one structure finding and exactly one forms finding
ExampleFindings ==
    /\ WithCategory(Report.advancedViolations, "contrast") = <<>>
    /\ Len(WithCategory(Report.advancedViolations, "structure")) = 1
    /\ Len(WithCategory(Report.advancedViolations, "forms")) = 1

\* clamp(baseline - penalty / 2, 0, 100), the baseline being the share of passes
\* among the baseline results of report r, in percent, 100 when there is none
BaselineLess(r, penalty) ==
    LET p == Len(r.passes)
        t == Len(r.passes) + Len(r.violations) + Len(r.incomplete)
    IN  IF t = 0 THEN Clamp(200 - penalty, 2) ELSE Clamp(200 * p - penalty * t, 2 * t)

\* C17 as stated: on the example page (one h1 to h3 skip, one unlabeled input, a
\* paragraph of bold 18px text at exactly 3:1) the structural pass produces no
\* contrast finding, exactly one structure finding and exactly one forms finding,
\* and the overall score is the baseline score less the structural weight 8 only.
C17_Original ==
    ExampleScanned =>
        /\ ExampleFindings
        /\ Report.scores.overall = BaselineLess(Report, 2 * 8)

\* C17 amended: on the example page the structural pass produces no contrast
\* finding, exactly one structure finding (the skip, moderate, weight 8) and
\* exactly one forms finding (the unlabeled input, serious, weight 15) and nothing
\* else; the semantic pass, when enabled, reports the skip as one moderate
\* user-flow finding (weight 6); and the overall score is the baseline score less
\* half the sum of these weights, 11.5 or 14.5, kept within 0 and 100.
C17_ExamplePage ==
    ExampleScanned =>
        /\ ExampleFindings
        /\ Len(Report.advancedViolations) = 2
        /\ WithCategory(Report.advancedViolations, "structure")[1].testId = "heading-level-skip"
        /\ WithCategory(Report.advancedViolations, "structure")[1].severity = "moderate"
        /\ WithCategory(Report.advancedViolations, "forms")[1].testId = "form-labels-missing"
        /\ WithCategory(Report.advancedViolations, "forms")[1].severity = "serious"
        /\ Len(Report.semanticIssues) = (IF scanned[1].options.includeSemantic THEN 1 ELSE 0)
        /\ \A i \in DOMAIN Report.semanticIssues :
              /\ Report.semanticIssues[i].testId = "user-flow-issues"
              /\ Report.semanticIssues[i].severity = "moderate"
        /\ Report.scores.overall
              = BaselineLess(Report, 8 + 15 + (IF scanned[1].options.includeSemantic THEN 6 ELSE 0))

\* the example page has been scanned with both passes and a baseline score of 90:
\* the overall score is 75.5, not 82
C17_Witness ==
    /\ ExampleScanned
    /\ loaded = Some(ExamplePage(Some(700), <<>>))
    /\ scanned[1].options.includeSemantic
    /\ Len(Report.passes) = 9 /\ Len(Report.violations) = 1 /\ Len(Report.incomplete) = 0
    /\ ExampleFindings
    /\ Report.scores.overall = Rat(151, 2)

-----------------------------------------------------------------------------
(* Properties of the findings' elements, under SpecPasses.                 *)

\* C18: every structural finding analyze() returns has a non-empty elements list
\* (a finding about the page as a whole, such as missing H1, multiple H1 or missing
\* main landmark, carries at least one synthetic element), so that every finding
\* contributes at least one row to the CSV report.
C18_FindingsHaveElements ==
    engine # Null =>
        \A c \in DOMAIN engine[1].returns :
            \A i \in DOMAIN engine[1].returns[c] :
                /\ Len(engine[1].returns[c][i].elements) >= 1
                /\ Len(AdvancedRows(engine[1].returns[c][i])) >= 1

-----------------------------------------------------------------------------
(* Properties of the verdict of a scan, under SpecAudit.                   *)

\* C20: the compliance verdict respects the strictness order of the levels.
\* Whenever the verdict is 'AAA' the scores of AA and A meet their thresholds
\* (wcagAA >= 90 and wcagA >= 85), and whenever it is 'AA' the score of A meets its
\* threshold (wcagA >= 85), for all baseline results and every requested wcagLevel.
C20_VerdictRespectsStrictness ==
    ScanReturned =>
        /\ Report.compliance.level = "AAA"
              => AtLeast(Report.scores.wcagAA, 90) /\ AtLeast(Report.scores.wcagA, 85)
        /\ Report.compliance.level = "AA" => AtLeast(Report.scores.wcagA, 85)

\* a scan that requested level A, whose baseline results carry no wcag2aaa tag and
\* pass half of the level A rules, has the verdict 'AAA'
C20_Witness ==
    /\ ScanReturned
    /\ scanned[1].options.wcagLevel = "A"
    /\ CountTagged(Report.passes, "wcag2aaa") + CountTagged(Report.violations, "wcag2aaa") = 0
    /\ Report.scores.wcagA = RInt(50)
    /\ Report.compliance.criticalIssues = 0
    /\ Report.compliance.level = "AAA"

-----------------------------------------------------------------------------
(* SpecConcurrent: the Scanner component with several scans in flight.     *)
(* The scan buttons are disabled while isScanning, but iframe.onload runs  *)
(* on every load event of the frame: when the framed page loads again      *)
(* before the first scan has settled and the frame is removed, a second    *)
(* scan starts while the first is in flight; and once one of them has      *)
(* settled, isScanning is false and the buttons start further scans.       *)

\* the frame of invocation s is still in the document and has loaded once
FrameLoaded(s) ==
    /\ scans[s].handler = "url"
    /\ scans[s].pc \in {"axe", "returned", "threw"}
    /\ "loads" \notin DOMAIN scans[s]

\* the invocation, its frame known to have loaded twice
LoadedAgain(invocation) == [loads |-> 2] @@ invocation

\* iframe.onload runs again, on the document the frame holds now: a second scan
\* starts, with the url and scanOptions of the handler's closure
IframeLoadsAgain(s, doc) ==
    /\ Len(scans) < MaxScans
    /\ FrameLoaded(s)
    /\ scans' = Append([scans EXCEPT ![s] = LoadedAgain(@)],
                       LoadedAgain(Invocation("url", [doc EXCEPT !.name = scans[s].doc.name],
                                              scans[s].options, "axe")))
    /\ UNCHANGED <<storeVars, delivered, nResults>>
    /\ UNCHANGED analysisVars

\* iframe.onload runs again and iframe.contentDocument is null
IframeLoadsAgainInaccessible(s) ==
    /\ Len(scans) < MaxScans
    /\ FrameLoaded(s)
    /\ setScanError(CatchMessage("url"))
    /\ scans' = Append([scans EXCEPT ![s] = LoadedAgain(@)], [handler |-> "url", pc |-> "failed"])
    /\ UNCHANGED <<delivered, nResults>>
    /\ UNCHANGED analysisVars

\* the settings of the options panel in SpecConcurrent
ConcurrentOptions == {DefaultOptions, [DefaultOptions EXCEPT !.includeAI = TRUE]}

NextConcurrent ==
    \/ \E doc \in ScannerDocs, options \in ConcurrentOptions : HandleFileScan(doc, options)
    \/ \E doc \in ScannerDocs, options \in ConcurrentOptions : HandleUrlScan(doc, options)
    \/ HandleUrlScanExternal
    \/ \E s \in DOMAIN scans : FileReadResolves(s)
    \/ \E s \in DOMAIN scans : FileReadRejects(s)
    \/ \E s \in DOMAIN scans : IframeLoads(s)
    \/ \E s \in DOMAIN scans : IframeLoadsInaccessible(s)
    \/ \E s \in DOMAIN scans : IframeErrors(s)
    \/ \E s \in DOMAIN scans, doc \in ScannerDocs : IframeLoadsAgain(s, doc)
    \/ \E s \in DOMAIN scans : IframeLoadsAgainInaccessible(s)
    \/ \E s \in DOMAIN scans : AxeResolves(s)
    \/ \E s \in DOMAIN scans, cause \in AxeFailures : AxeRejects(s, cause)
    \/ \E s \in DOMAIN scans : HandlerDelivers(s)
    \/ \E s \in DOMAIN scans : HandlerCatches(s)

SpecConcurrent == Init /\ [][NextConcurrent]_vars

\* the scans in flight: started and not yet delivered or failed
InFlight == {s \in DOMAIN scans : scans[s].pc \in {"read", "iframe", "axe", "returned", "threw"}}

\* the complete reports of single scans: all fields from one scan() of one document
\* under one name, with one setting of the options
CompleteReports ==
    { JSONClone(ResultsPayload(name.name, ScanBody(doc, options, s))) :
        name \in ScannerDocs, doc \in ScannerDocs,
        options \in ConcurrentOptions, s \in DOMAIN scans }

\* the history after the report of scan s is put in front
WithReportOf(s) ==
    LET report == JSONClone(ResultsPayload(scans[s].doc.name, scans[s].returned[1]))
    IN  SubSeq(<<report>> \o scanHistory, 1, IF Len(scanHistory) < MaxHistory THEN Len(scanHistory) + 1 ELSE MaxHistory)

\* scan s completes successfully in this step
Completes(s) == scans[s].pc = "returned" /\ scans'[s].pc = "done"

\* C19: history is updated atomically per completed scan.  With several scans in
\* flight, completing in any interleaving, every step in which a scan completes
\* successfully puts the complete report of that scan, and nothing else, in front
\* of scanHistory, and no other step changes scanHistory; so scanHistory holds the
\* reports in the reverse order of completion, and each entry is the complete
\* report of one scan, never a partial report or a mix of two scans.
C19_HistoryIsAtomic ==
    /\ [](/\ \A i \in DOMAIN scanHistory : scanHistory[i] \in CompleteReports
          /\ Len(scanHistory) = Cardinality({s \in DOMAIN scans : scans[s].pc = "done"})
          /\ \A i \in DOMAIN scanHistory :
                scanHistory[i] = JSONClone(delivered[Len(delivered) + 1 - i]))
    /\ [][ /\ \A s \in DOMAIN scans : Completes(s) => scanHistory' = WithReportOf(s)
           /\ scanHistory' # scanHistory =>
                 \E s \in DOMAIN scans :
                    /\ Completes(s)
                    /\ \A t \in DOMAIN scans \ {s} : scans'[t] = scans[t] ]_vars

\* two scans were in flight together and the one started first completed last: its
\* report is the first of scanHistory, the report of the other is the second
C19_Witness ==
    /\ Len(scans) >= 2
    /\ scans[1].pc = "done" /\ scans[2].pc = "done"
    /\ Len(scanHistory) = 2
    /\ scanHistory[1].timestamp = 1
    /\ scanHistory[2].timestamp = 2
    /\ scanHistory[1] # scanHistory[2]

-----------------------------------------------------------------------------
(* Further properties of the contrast pass, checked under SpecPages.       *)

\* ten times (lighter + 0.05) / (darker + 0.05) is below the given number of tenths
RatioBelowTenths(fg, bg, tenths) ==
    LET lighter == IF fg >= bg THEN fg ELSE bg
        darker == IF fg >= bg THEN bg ELSE fg
    IN  10 * (lighter + 50) < tenths * (darker + 50)

\* C21: every contrast finding has severity critical when its ratio is below 3,
\* serious when its ratio is at least 3 and below 4.5, and moderate otherwise.
\* The ratio is taken from the colours the finding reports.
C21_ContrastSeverity ==
    EngineDone =>
        \A i \in DOMAIN ContrastFindings :
            LET styles == ContrastFindings[i].elements[1].computedStyles
                fg == styles.color
                bg == styles.backgroundColor
            IN  ContrastFindings[i].severity
                    = IF RatioBelowTenths(fg, bg, 30) THEN "critical"
                      ELSE IF RatioBelowTenths(fg, bg, 45) THEN "serious"
                      ELSE "moderate"

\* the engine has analyzed a paragraph of normal text at exactly 3:1 (luminance 0.25
\* on 0.05), reported as serious, inside a body at 1:1, reported as critical
C21_Witness ==
    /\ EngineDone
    /\ \E i, j \in DOMAIN ContrastFindings :
          /\ ContrastFindings[i].severity = "serious"
          /\ ContrastFindings[i].elements[1].computedStyles.color = 250
          /\ ContrastFindings[i].elements[1].computedStyles.backgroundColor = 50
          /\ ContrastFindings[i].description.values[1] = RInt(3)
          /\ ContrastFindings[j].severity = "critical"
          /\ RLt(ContrastFindings[j].description.values[1], RInt(3))

\* the ratio an assessment of the given level requires of text of the given size
LevelThreshold(level, large) ==
    IF level = "AA" THEN (IF large THEN RInt(3) ELSE Rat(9, 2))
    ELSE (IF large THEN Rat(9, 2) ELSE RInt(7))

\* C22: every contrast assessment is internally consistent: passes is true exactly
\* when ratio >= requiredRatio, and requiredRatio is the threshold of the
\* assessment's reported level for the element's text size (level AA: 3 for large
\* text, 4.5 for normal text; level AAA: 4.5 for large text, 7 for normal text).
\* The assessments are those of the text elements of the analyzed document.
C22_AssessmentIsConsistent ==
    EngineDone =>
        \A i \in DOMAIN TextElements(document[1]) :
            LET e == TextElements(document[1])[i]
                analysis == calculateContrastRatio(document[1], e)
            IN  /\ analysis.passes <=> RLeq(analysis.requiredRatio, analysis.ratio)
                /\ analysis.requiredRatio
                      = LevelThreshold(analysis.level, LargeText(document[1].elements[e].style))

\* the engine has analyzed a paragraph of normal text at exactly 4.5:1 (luminance
\* 0.40 on 0.05): its assessment passes at level AA with a required ratio of 7,
\* and the body around it is reported at level AA as below the required 7:1
C22_Witness ==
    /\ EngineDone
    /\ \E i \in DOMAIN TextElements(document[1]) :
          LET analysis == calculateContrastRatio(document[1], TextElements(document[1])[i])
          IN  /\ analysis.ratio = Rat(9, 2)
              /\ analysis.passes
              /\ analysis.level = "AA"
              /\ analysis.requiredRatio = RInt(7)
    /\ \E j \in DOMAIN ContrastFindings :
          /\ ContrastFindings[j].level = "AA"
          /\ ContrastFindings[j].description.values[2] = RInt(7)

-----------------------------------------------------------------------------
(* SpecElements: the engine's analyze() on documents generated from the    *)
(* kinds of element its keyboard and image algorithms tell apart.          *)

\* elements generated into one document
MaxInteractive == 2

\* what the keyboard algorithm's selector and its three branches tell apart
KeyboardKinds ==
    { El("div", 1, [attributes |-> [onclick |-> "open()", tabindex |-> "-1"]]),
      El("span", 1, [attributes |-> [tabindex |-> "-1"]]),
      El("div", 1, [attributes |-> [role |-> "menuitem", tabindex |-> "-1"]]),
      El("div", 1, [attributes |-> [onclick |-> "open()"]]),
      El("div", 1, [attributes |-> [role |-> "button"]]),
      El("div", 1, [attributes |-> [role |-> "link"]]),
      El("div", 1, [attributes |-> [onclick |-> "open()", tabindex |-> "0"]]),
      El("div", 1, [attributes |-> [onclick |-> "open()", href |-> "/more"]]),
      El("button", 1, [attributes |-> [tabindex |-> "-1"]]),
      El("a", 1, [attributes |-> [href |-> "/more"], text |-> Phrase("Read the report", 3, 4)]),
      El("input", 1, [attributes |-> ("type" :> "hidden")]),
      El("p", 1, [text |-> Phrase("Plain text", 2, 2)]) }

\* a body holding the given elements
BodyOf(elements) == Page(<<El("body", 0, <<>>)>> \o elements, TRUE)

\* every short list of keyboard kinds, and long runs of click-only elements with and
\* without an element taken out of the tab order in front
KeyboardPages ==
    { BodyOf(elements) :
        elements \in UNION { [1..n -> KeyboardKinds] : n \in 0..MaxInteractive } }
      \cup { BodyOf(front \o [i \in 1..n |-> El("div", 1, [attributes |-> [onclick |-> "open()"]])]) :
               n \in 9..11,
               front \in { <<>>,
                           <<El("div", 1, [attributes |-> [onclick |-> "open()", tabindex |-> "-1"]])>> } }

\* the attribute of the given name when a value is given, none otherwise
Attribute(name, value) == IF value = Null THEN <<>> ELSE name :> value[1]

\* the alternative texts of the generated images: none, empty, too short, generic
\* words, a camera file name, the names of the image files, texts holding such a
\* name, and a descriptive text
ImageAlts ==
    { Null, Some(""), Some("ok"), Some("photo"), Some("IMG12"), Some("DSC0042"), Some("hero"),
      Some("team"), Some("Hero banner"), Some("Our team at work"), Some("Quarterly sales chart") }

\* a body holding one image-like element, or an element that is no image
ImagePages ==
    { BodyOf(<<El(tag, 1, [attributes |-> Attribute("alt", alt) @@ Attribute("src", src)
                                           @@ Attribute("aria-label", label)
                                           @@ Attribute("role", role)])>>) :
        tag \in {"img", "svg", "div"},
        alt \in ImageAlts,
        src \in {Null, Some(""), Some("hero.jpg"), Some("assets/team.png")},
        label \in {Null, Some("Logo")},
        role \in {Null, Some("img"), Some("presentation")} }

ElementPages == KeyboardPages \cup ImagePages

InitElements == InitOn(ElementPages)

NextElements == EngineAnalyzes

SpecElements == InitElements /\ [][NextElements]_vars

-----------------------------------------------------------------------------
(* Properties of the keyboard and image algorithms, under SpecElements.    *)

\* interactive-looking: a native interactive tag, tabindex, a click-style attribute or
\* an interactive ARIA role
LooksInteractive(el) ==
    \/ el.tag \in {"a", "button", "input", "select", "textarea"}
    \/ "tabindex" \in DOMAIN el.attributes
    \/ "onclick" \in DOMAIN el.attributes
    \/ "role" \in DOMAIN el.attributes /\ el.attributes["role"] \in {"button", "link", "menuitem"}

\* explicitly removed from the tab order: tabindex="-1" on a non-native element
RemovedFromTabOrder(el) ==
    /\ LooksInteractive(el)
    /\ el.tag \notin {"a", "button", "input", "select", "textarea"}
    /\ "tabindex" \in DOMAIN el.attributes
    /\ el.attributes["tabindex"] = "-1"

\* click-only: interactive-looking, not native, no href and no tabindex at all
ClickOnly(el) ==
    /\ LooksInteractive(el)
    /\ el.tag \notin {"a", "button", "input", "select", "textarea"}
    /\ "href" \notin DOMAIN el.attributes
    /\ "tabindex" \notin DOMAIN el.attributes

KeyboardFindings == WithTestId(EngineFindings, "missing-keyboard-support")

\* C23: every interactive-looking element that is not a native interactive tag and
\* carries tabindex="-1" is classified as removed from the tab order and is counted
\* among the elements of the serious 'missing-keyboard-support' finding, which lists
\* at most 10 sample elements (the first 10 of the removed and click-only elements in
\* document order) and is emitted exactly when at least one such or click-only
\* element exists.
C23_RemovedFromTabOrderIsReported ==
    EngineDone =>
        LET doc == document[1]
            counted == SelectSeq([e \in DOMAIN doc.elements |-> e],
                                 LAMBDA e : \/ RemovedFromTabOrder(doc.elements[e])
                                            \/ ClickOnly(doc.elements[e]))
            shown == IF Len(counted) > 10 THEN SubSeq(counted, 1, 10) ELSE counted
        IN  /\ Len(KeyboardFindings) = (IF counted = <<>> THEN 0 ELSE 1)
            /\ \A i \in DOMAIN KeyboardFindings :
                  /\ KeyboardFindings[i].severity = "serious"
                  /\ Len(KeyboardFindings[i].elements) = Len(shown)
                  /\ \A k \in DOMAIN shown :
                        KeyboardFindings[i].elements[k].html
                            = [tag |-> doc.elements[shown[k]].tag,
                               attributes |-> doc.elements[shown[k]].attributes]

\* the engine has analyzed a body holding only a div with onclick and tabindex="-1",
\* and reports no 'missing-keyboard-support' finding
C23_Witness ==
    /\ EngineDone
    /\ document = Some(BodyOf(<<El("div", 1, [attributes |-> [onclick |-> "open()", tabindex |-> "-1"]])>>))
    /\ RemovedFromTabOrder(document[1].elements[2])
    /\ KeyboardFindings = <<>>

\* image-like: img, svg or role=img
ImageLike(el) ==
    \/ el.tag \in {"img", "svg"}
    \/ "role" \in DOMAIN el.attributes /\ el.attributes["role"] = "img"

\* the attribute is present with a value that is not empty
NonEmpty(el, name) == name \in DOMAIN el.attributes /\ el.attributes[name] # ""

\* marked decorative: role presentation or none, or an empty alt
MarkedDecorative(el) ==
    \/ "role" \in DOMAIN el.attributes /\ el.attributes["role"] \in {"presentation", "none"}
    \/ "alt" \in DOMAIN el.attributes /\ el.attributes["alt"] = ""

\* the alt text names the image's own file: it holds the name of the file of src
NamesOwnFile(el) ==
    /\ NonEmpty(el, "src")
    /\ \/ el.attributes["src"] = "hero.jpg" /\ el.attributes["alt"] \in {"hero", "Hero banner"}
       \/ el.attributes["src"] = "assets/team.png"
            /\ el.attributes["alt"] \in {"team", "Our team at work"}

\* low-information alt text: shorter than 3 characters, a generic word (image,
\* picture, photo, img<digits>), a camera file name (dsc<digits>), or the own file name
LowInformation(el) ==
    \/ Len(el.attributes["alt"]) < 3
    \/ el.attributes["alt"] \in {"image", "Picture", "photo", "img", "IMG12", "DSC0042"}
    \/ NamesOwnFile(el)

ImageFindings == WithTestId(EngineFindings, "image-alt-text-issues")

\* C24: an image-like element (img, svg, role=img) is listed in the
\* image-alternatives finding exactly when (a) it has no alt attribute, no aria-label
\* and no aria-labelledby and is not marked decorative (role presentation/none or
\* empty alt), or (b) its non-empty alt text is low-information.  An image with any
\* other alt text is never listed, whether or not it has a src attribute.  The
\* elements of the finding are the listed images in document order.
C24_ImageIsListed ==
    EngineDone =>
        LET doc == document[1]
            Listed(e) ==
                /\ ImageLike(doc.elements[e])
                /\ \/ /\ "alt" \notin DOMAIN doc.elements[e].attributes
                      /\ ~NonEmpty(doc.elements[e], "aria-label")
                      /\ ~NonEmpty(doc.elements[e], "aria-labelledby")
                      /\ ~MarkedDecorative(doc.elements[e])
                   \/ /\ NonEmpty(doc.elements[e], "alt")
                      /\ LowInformation(doc.elements[e])
            listed == SelectSeq([e \in DOMAIN doc.elements |-> e], Listed)
        IN  /\ Len(ImageFindings) = (IF listed = <<>> THEN 0 ELSE 1)
            /\ \A i \in DOMAIN ImageFindings :
                  /\ Len(ImageFindings[i].elements) = Len(listed)
                  /\ \A k \in DOMAIN listed :
                        ImageFindings[i].elements[k].html
                            = [tag |-> doc.elements[listed[k]].tag,
                               attributes |-> doc.elements[listed[k]].attributes]

\* the engine has analyzed a body holding only <img alt="Quarterly sales chart">,
\* without src, and lists that image as having poor alt text
C24_Witness ==
    /\ EngineDone
    /\ document = Some(BodyOf(<<El("img", 1, [attributes |-> ("alt" :> "Quarterly sales chart")])>>))
    /\ Len(ImageFindings) = 1
    /\ ImageFindings[1].elements[1].html.attributes = ("alt" :> "Quarterly sales chart")
    /\ ImageFindings[1].elements[1].issue.text = "Poor alt text: Quarterly sales chart"

-----------------------------------------------------------------------------
(* SpecContent: both analyzers, each in one piece, on documents generated  *)
(* from what the semantic algorithms measure: the length and the counts of *)
(* a text block, the fields of a form, the levels of the headings.         *)

\* words in a generated text block
MaxWords == 10

\* a text of the given length in characters and the given counts of words, sentences
\* and syllables
Measured(chars, words, sentences, syllables) ==
    [content |-> "Lorem ipsum", chars |-> chars, words |-> words, sentences |-> sentences,
     syllables |-> syllables, complexWords |-> 0, jargon |-> <<>>]

\* a main landmark holding one h1 and one element with a text of 49, 50 or 51
\* characters, of one sentence or two or none (a text without letters), whose words
\* have from one to three syllables on average
TextPages ==
    { Page(<< El("body", 0, <<>>), El("main", 1, <<>>),
              El("h1", 2, [text |-> Phrase("Title", 1, 2)]),
              El(tag, 2, [text |-> Measured(chars, words, sentences, syllables)]) >>, TRUE) :
        tag \in {"p", "div", "li", "td", "th", "span"},
        chars \in {49, 50, 51},
        words \in {MaxWords - 2, MaxWords},
        sentences \in 0..2,
        syllables \in MaxWords - 2 .. 3 * MaxWords - 6 }

\* plain text inputs in a generated form
MaxPlain == 2

\* the fields of a form: plain inputs, selects, textareas, checkboxes and radios, the
\* first required of them carrying the required attribute, the first one described
\* by a help text when described is true
FormFields(plain, selects, textareas, checkboxes, radios, required, described) ==
    LET fields == [i \in 1..plain |-> El("input", 4, [attributes |-> [type |-> "text"]])]
                    \o [i \in 1..selects |-> El("select", 4, <<>>)]
                    \o [i \in 1..textareas |-> El("textarea", 4, <<>>)]
                    \o [i \in 1..checkboxes |-> El("input", 4, [attributes |-> [type |-> "checkbox"]])]
                    \o [i \in 1..radios |-> El("input", 4, [attributes |-> [type |-> "radio"]])]
    IN  [i \in DOMAIN fields |->
            [fields[i] EXCEPT !.attributes =
                @ @@ (IF i <= required THEN "required" :> "" ELSE <<>>)
                  @@ (IF i = 1 /\ described THEN "aria-describedby" :> "hint" ELSE <<>>)]]

\* a main landmark holding one h1 and one form, with or without a fieldset
FormPages ==
    { Page(<< El("body", 0, <<>>), El("main", 1, <<>>),
              El("h1", 2, [text |-> Phrase("Title", 1, 2)]),
              El("form", 2, <<>>) >>
             \o FormFields(plain, selects, textareas, checkboxes, radios, required, described)
             \o (IF grouped THEN <<El("fieldset", 4, <<>>)>> ELSE <<>>),
           TRUE) :
        plain \in 0..MaxPlain,
        selects \in {0, 3, 4, 7},
        textareas \in {0, 3, 4},
        checkboxes \in {0, 6},
        radios \in {0, 6},
        required \in {0, 1, 2, 5},
        described \in BOOLEAN,
        grouped \in BOOLEAN }

ContentPages == TextPages \cup FormPages

InitContent == InitOn(ContentPages)

NextContent == EngineAnalyzes \/ AnalyzerAnalyzes

SpecContent == InitContent /\ [][NextContent]_vars

-----------------------------------------------------------------------------
(* Properties of the semantic algorithms, under SpecContent.               *)

\* the analyzer has analyzed the document
AnalyzerDone == analyzer # Null /\ analyzer[1].returns # <<>>

\* the findings of the analyzer's analyze()
AnalyzerFindings == analyzer[1].returns[1]

ReadabilityFindings == WithTestId(AnalyzerFindings, "content-readability")

\* the text of element e of a generated document, which has no children with text
BlockText(doc, e) == doc.elements[e].text

\* the Flesch score 206.835 - 1.015 words/sentences - 84.6 syllables/words, clamped to
\* [0, 100]; without a sentence the quotient is infinite and the clamped score 0
ClampedScore(text) ==
    IF text.sentences = 0 THEN RInt(0)
    ELSE Clamp(206835 * text.sentences * text.words - 1015 * text.words * text.words
                 - 84600 * text.syllables * text.sentences,
               1000 * text.sentences * text.words)

\* round(a), a half rounded up, for a >= 0
Rounded(a) == (2 * a.num + a.den) \div (2 * a.den)

\* C25: every p, div, li, td or th block whose trimmed text has at least 50
\* characters is scored for readability, and blocks shorter than 50 characters are
\* not; a scored block yields one readability finding exactly when its score clamped
\* to [0,100] is below 60, with severity serious when the score is below 40 and
\* moderate otherwise, and with cognitiveLoad = round((100 - score)/10), which lies
\* in 1..10.  The findings are those of the scored blocks below 60, in document order.
C25_ReadabilityOfTextBlocks ==
    AnalyzerDone =>
        LET doc == loaded[1]
            Reported(e) ==
                /\ doc.elements[e].tag \in {"p", "div", "li", "td", "th"}
                /\ BlockText(doc, e).chars >= 50
                /\ ~AtLeast(ClampedScore(BlockText(doc, e)), 60)
            reported == SelectSeq([e \in DOMAIN doc.elements |-> e], Reported)
        IN  /\ Len(ReadabilityFindings) = Len(reported)
            /\ \A i \in DOMAIN reported :
                  LET score == ClampedScore(BlockText(doc, reported[i]))
                      finding == ReadabilityFindings[i]
                  IN  /\ finding.severity = (IF AtLeast(score, 40) THEN "moderate" ELSE "serious")
                      /\ Len(finding.elements) = 1
                      /\ finding.elements[1].selector = doc.elements[reported[i]].tag
                      /\ finding.elements[1].cognitiveLoad
                            = Rounded(Rat(100 * score.den - score.num, 10 * score.den))
                      /\ finding.elements[1].cognitiveLoad \in 1..10

\* the analyzer has analyzed a paragraph of exactly 50 characters in one sentence of
\* 10 words and 22 syllables (Flesch score 10.565) and reports no readability finding
C25_Witness ==
    /\ AnalyzerDone
    /\ loaded[1].elements[4].tag = "p"
    /\ loaded[1].elements[4].text = Measured(50, 10, 1, 22)
    /\ ~AtLeast(ClampedScore(loaded[1].elements[4].text), 11)
    /\ ReadabilityFindings = <<>>

FormFindings == WithTestId(AnalyzerFindings, "high-cognitive-load-form")

\* ten times min(10, min(4, 0.3*fieldCount) + 0.2*requiredCount + 0.4*selectCount
\* + 0.3*textareaCount + (1.0 if checkboxes > 5) + (0.8 if radios > 5)
\* + (1.0 if no fieldset and fieldCount > 5) + (0.5 if no aria-describedby)), for a
\* form whose fields are its children
ComplexityTenths(doc, form) ==
    LET inside == {e \in DOMAIN doc.elements : doc.elements[e].parent = form}
        Count(Test(_)) == Cardinality({e \in inside : Test(doc.elements[e])})
        IsField(el) == el.tag \in {"input", "select", "textarea"}
        IsRequired(el) == "required" \in DOMAIN el.attributes
        IsSelect(el) == el.tag = "select"
        IsTextarea(el) == el.tag = "textarea"
        IsCheckbox(el) == /\ el.tag = "input" /\ "type" \in DOMAIN el.attributes
                          /\ el.attributes["type"] = "checkbox"
        IsRadio(el) == /\ el.tag = "input" /\ "type" \in DOMAIN el.attributes
                       /\ el.attributes["type"] = "radio"
        IsFieldset(el) == el.tag = "fieldset"
        IsDescribed(el) == "aria-describedby" \in DOMAIN el.attributes
        sum == (IF 3 * Count(IsField) < 40 THEN 3 * Count(IsField) ELSE 40)
                 + 2 * Count(IsRequired) + 4 * Count(IsSelect) + 3 * Count(IsTextarea)
                 + (IF Count(IsCheckbox) > 5 THEN 10 ELSE 0)
                 + (IF Count(IsRadio) > 5 THEN 8 ELSE 0)
                 + (IF Count(IsFieldset) = 0 /\ Count(IsField) > 5 THEN 10 ELSE 0)
                 + (IF Count(IsDescribed) = 0 THEN 5 ELSE 0)
    IN  IF sum > 100 THEN 100 ELSE sum

\* C26: for every form, the complexity score equals min(10, min(4, 0.3*fieldCount)
\* + 0.2*requiredCount + 0.4*selectCount + 0.3*textareaCount + (1.0 if checkboxes > 5)
\* + (0.8 if radios > 5) + (1.0 if no fieldset and fieldCount > 5) + (0.5 if no
\* aria-describedby)); the form yields a finding exactly when the score is strictly
\* above 7, serious when strictly above 8.5 and moderate otherwise, and a score of
\* exactly 7 yields no finding.  The score a finding reports is taken as equal when it
\* is the double nearest to the sum or differs from it by the rounding of the sums.
C26_FormComplexity ==
    AnalyzerDone =>
        LET doc == loaded[1]
            Reported(e) == doc.elements[e].tag = "form" /\ ComplexityTenths(doc, e) > 70
            reported == SelectSeq([e \in DOMAIN doc.elements |-> e], Reported)
        IN  /\ Len(FormFindings) = Len(reported)
            /\ \A i \in DOMAIN reported :
                  /\ FormFindings[i].description.values[1].tenths
                        = ComplexityTenths(doc, reported[i])
                  /\ FormFindings[i].severity
                        = (IF ComplexityTenths(doc, reported[i]) > 85 THEN "serious"
                           ELSE "moderate")

\* the analyzer has analyzed a form of 2 inputs, 4 selects and 4 textareas, one of
\* them required and one described, without fieldset: its score is 3 + 0.2 + 1.6
\* + 1.2 + 1 = 7, and the analyzer reports it as moderate with the score
\* 7.000000000000001 (7 + 32/2^55)
C26_Witness ==
    /\ AnalyzerDone
    /\ Len(loaded[1].elements) = 14
    /\ loaded[1].elements[4].tag = "form"
    /\ ComplexityTenths(loaded[1], 4) = 70
    /\ Len(FormFindings) = 1
    /\ FormFindings[1].severity = "moderate"
    /\ FormFindings[1].description.values[1] = Double(70, 320)

-----------------------------------------------------------------------------
(* SpecFlow: both analyzers, each in one piece, on the generated heading   *)
(* documents, with and without a main landmark.                            *)

\* a body holding a main landmark that holds headings of the given levels
LandmarkPage(levels) ==
    Page(<<El("body", 0, <<>>), El("main", 1, <<>>)>>
           \o [i \in DOMAIN levels |-> El(HeadingNames[levels[i]], 2, [text |-> Phrase("Title", 1, 1)])],
         TRUE)

FlowPages ==
    HeadingPages
      \cup { LandmarkPage(levels) : levels \in UNION { [1..n -> 1..6] : n \in 0..MaxHeadings } }

InitFlow == InitOn(FlowPages)

SpecFlow == InitFlow /\ [][NextContent]_vars

\* the issues of the analyzer's user-flow finding, each as its type and weight; none
\* when there is no such finding
FlowIssues ==
    LET findings == WithTestId(AnalyzerFindings, "user-flow-issues")
    IN  IF findings = <<>> THEN <<>>
        ELSE [i \in DOMAIN findings[1].elements |->
                 <<findings[1].elements[i].semanticIssue.text,
                   findings[1].elements[i].cognitiveLoad>>]

\* the positions i of a list of heading levels with level[i] > level[i-1] + 1
SkipsIn(levels) == {i \in DOMAIN levels : i > 1 /\ levels[i] > levels[i - 1] + 1}

\* C27: for every sequence of heading levels, the page-flow pass records one 'Heading
\* hierarchy skip' issue (weight 5) for exactly the adjacent heading pairs with
\* level[i] > level[i-1] + 1, the same occurrences for which the structural heading
\* pass emits a 'heading-level-skip' finding; a first heading that is not H1 adds
\* only the 'first heading is not H1' issue (weight 7), and a missing main landmark
\* adds one issue of weight 6.
C27_FlowIssues ==
    (AnalyzerDone /\ EngineDone) =>
        LET levels == LevelsOf(loaded[1])
            hasMain == \E e \in DOMAIN loaded[1].elements : loaded[1].elements[e].tag = "main"
            IssuesAt(i) ==
                (IF i = 1 /\ levels[i] # 1 THEN <<<<"Missing primary heading", 7>>>> ELSE <<>>)
                  \o (IF i \in SkipsIn(levels) THEN <<<<"Heading hierarchy skip", 5>>>> ELSE <<>>)
            expected == Concat([i \in DOMAIN levels |-> IssuesAt(i)])
                          \o (IF hasMain THEN <<>> ELSE <<<<"Missing main landmark", 6>>>>)
        IN  /\ FlowIssues = expected
            /\ Len(SelectSeq(FlowIssues, LAMBDA issue : issue[1] = "Heading hierarchy skip"))
                  = Len(WithTestId(EngineFindings, "heading-level-skip"))

\* both analyzers have analyzed a main landmark holding h2 and h3: the structural
\* pass reports no skip, the page-flow pass the first heading and a skip from H0 to H2
C27_Witness ==
    /\ AnalyzerDone /\ EngineDone
    /\ loaded = Some(LandmarkPage(<<2, 3>>))
    /\ WithTestId(EngineFindings, "heading-level-skip") = <<>>
    /\ FlowIssues = << <<"Missing primary heading", 7>>, <<"Heading hierarchy skip", 5>> >>
    /\ WithTestId(AnalyzerFindings, "user-flow-issues")[1].elements[2].context.values
          = <<RInt(0), RInt(2)>>

-----------------------------------------------------------------------------
(* A further property of the store, checked under SpecStore.               *)

\* C28: after any sequence of the scan store's actions (startScan, setScanResults,
\* setScanError, clearResults, clearHistory), immediately after setScanResults the
\* store is not in an error state: error is null, isScanning is false and
\* currentResults is the report just delivered.
C28_ResultsWithoutError ==
    [][nResults' = nResults + 1 =>
          /\ error' = Null
          /\ isScanning' = FALSE
          /\ currentResults' = Some(StorePayload(nResults'))]_vars

-----------------------------------------------------------------------------
(* SpecLive: SpecConcurrent with the scheduling the handlers rely on: the  *)
(* promise of File.text() settles, the iframe fires load or error, the     *)
(* promise of axe.run settles, and a continuation whose promise has        *)
(* settled is run by the event loop.                                       *)

\* the next step of invocation s: an awaited promise or event settles, or the
\* handler resumes
Proceeds(s) ==
    /\ s \in DOMAIN scans
    /\ \/ FileReadResolves(s)
       \/ FileReadRejects(s)
       \/ IframeLoads(s)
       \/ IframeLoadsInaccessible(s)
       \/ IframeErrors(s)
       \/ \E cause \in AxeFailures : AxeRejects(s, cause)
       \/ AxeResolves(s)
       \/ HandlerDelivers(s)
       \/ HandlerCatches(s)

SpecLive == SpecConcurrent /\ \A s \in 1..MaxScans : WF_vars(Proceeds(s))

\* invocation s has ended: its handler has dispatched setScanResults or setScanError
Ended(s) == s \in DOMAIN scans /\ scans[s].pc \in {"done", "failed"}

-----------------------------------------------------------------------------
(* SpecDownload: the ReportGenerator component.  generateReport builds the *)
(* report data from the scan results it was given and downloads it in the  *)
(* chosen format; downloadCSV reads only the violations of that data.      *)

\* `${value}` of a violation's impact, which axe leaves null for some rules
ImpactText(impact) == IF impact = Null THEN Plain("null") ELSE impact[1]

\* reportData.violations: the fields generateReport copies from each violation
ReportData(scanResults) ==
    [ violations |->
        [ v \in DOMAIN scanResults.violations |->
            [ id          |-> scanResults.violations[v].id,
              impact      |-> scanResults.violations[v].impact,
              help        |-> scanResults.violations[v].help,
              description |-> scanResults.violations[v].description,
              tags        |-> scanResults.violations[v].tags,
              nodes       |-> [ n \in DOMAIN scanResults.violations[v].nodes |->
                                  [target |-> scanResults.violations[v].nodes[n].target] ] ] ] ]

\* 'ID,Impact,Help,Description,Affected Elements'
CsvHeaderLine ==
    <<"ID", Comma, "Impact", Comma, "Help", Comma, "Description", Comma, "Affected Elements">>

\* `"${value}"`: the value between two double quotes, as it is
Interpolated(value) == <<Quote>> \o value \o <<Quote>>

\* the cells downloadCSV writes for one violation
DownloadCells(v) ==
    << v.id, ImpactText(v.impact), v.help, v.description, Plain(ToString(Len(v.nodes))) >>

\* csvContent of downloadCSV
downloadCSV(data) ==
    JoinWith(<<CsvHeaderLine>>
               \o [ v \in DOMAIN data.violations |->
                      JoinWith([c \in 1..5 |-> Interpolated(DownloadCells(data.violations[v])[c])],
                               <<Comma>>) ],
             <<LineFeed>>)

ReportFormats == {"pdf", "html", "csv", "json"}

\* generateReport with reportFormat chosen: the Blob that is downloaded ('pdf'
\* falls back to the HTML report)
GenerateReport ==
    /\ currentResults # Null
    /\ \E reportFormat \in ReportFormats :
          LET reportData == ReportData(currentResults[1])
          IN  exported' = Some(CASE reportFormat = "json" ->
                                      [type |-> "application/json", stringify |-> reportData]
                                 [] reportFormat = "csv" ->
                                      [type |-> "text/csv", text |-> downloadCSV(reportData)]
                                 [] OTHER ->
                                      [type |-> "text/html", rendered |-> reportData])
    /\ UNCHANGED <<scanVars, document, loaded, engine, analyzer, scanned>>

NextDownload == GenerateReport

SpecDownload == InitCsv /\ [][NextDownload]_vars

\* a CSV report has been downloaded
DownloadedCsv == exported # Null /\ exported[1].type = "text/csv"

\* C30: the CSV of downloadCSV keeps column boundaries intact.  Read by the standard
\* CSV quoting rules, the downloaded text has the header row and one row for each
\* violation, and every data row has exactly 5 cells whose values are the violation's
\* id, impact, help, description and number of nodes, whatever double quotes, commas
\* and line feeds help and description hold.
C30_DownloadKeepsColumns ==
    DownloadedCsv =>
        LET violations == currentResults[1].violations
            parsed == ParseCsv(exported[1].text)
        IN  /\ Len(parsed) = 1 + Len(violations)
            /\ \A v \in DOMAIN violations :
                  /\ Len(parsed[v + 1]) = 5
                  /\ \A c \in 1..5 : parsed[v + 1][c].value = DownloadCells(violations[v])[c]

\* a violation whose help is a double quote followed by a comma has been downloaded:
\* its row reads as four cells, the third holding nothing of the help text and the
\* fourth running over the description and the count
C30_Witness ==
    /\ DownloadedCsv
    /\ Len(currentResults[1].violations) = 1
    /\ currentResults[1].violations[1].help = <<Quote, Comma>>
    /\ currentResults[1].violations[1].description = <<"a">>
    /\ Len(ParseCsv(exported[1].text)) = 2
    /\ Len(ParseCsv(exported[1].text)[2]) = 4
    /\ ParseCsv(exported[1].text)[2][3].value = <<>>
    /\ ParseCsv(exported[1].text)[2][4].value = <<Comma, "a", Comma, "2">>

====
